---- MODULE Spec2Model ----
(***************************************************************************)
(* A model of the reactivity core of the Vue 2.6 source tree: the          *)
(* accessor installer and container wrapper (observer/index.js, kept as    *)
(* src/unnamed/part_002), the array interception (src/unnamed/part_001),   *)
(* the Watcher (src/src/core/observer/watcher.js), traverse, and nextTick  *)
(* (the second file held in src/src/core/util/options.js).  Dep and the    *)
(* scheduler are imported by these files but are not part of the source    *)
(* tree at hand; they are modelled from sections 4.1 and 4.5 of spec.md.   *)
(*                                                                         *)
(* JavaScript is single threaded: every handler runs to completion.  A     *)
(* handler is therefore a function from program states to program states   *)
(* (operators over a record S holding every program variable), and each    *)
(* action of the specification applies one whole handler.                  *)
(***************************************************************************)
EXTENDS Integers, Sequences, FiniteSets, TLC

VARIABLES
    heap,          \* the object graph: heap[o] is one container
    shouldObserve, \* observer/index.js: export let shouldObserve
    subs,          \* subs[d]: the subscriber list of the Dep with id d
    watchers,      \* watchers[w]: the w-th Watcher constructed; w stands
                   \* for the object wherever a list holds a watcher
    uid,           \* watcher.js: let uid
    vmWatchers,    \* vm._watchers
    targetStack,   \* dep.js targetStack; Dep.target is its top
    seenObjects,   \* traverse.js: const seenObjects
    queue,         \* scheduler: queue (of watchers)
    has,           \* scheduler: has (ids with has[id] = true)
    circular,      \* scheduler: circular[id]
    waiting,       \* scheduler: waiting
    flushing,      \* scheduler: flushing
    index,         \* scheduler: index (0-based, as in the code)
    callbacks,     \* next-tick: callbacks
    pending,       \* next-tick: pending
    scheduled,     \* flushCallbacks invocations handed to the platform
    issued,        \* history: per callback given to nextTick from outside
                   \* the scheduler, in order, the context given with it
    invoked,       \* history: the callbacks invoked, in order, and their this
    hist           \* history, per watcher: the fields its evaluations read

vars == << heap, shouldObserve, subs, watchers, uid, vmWatchers, targetStack,
           seenObjects, queue, has, circular, waiting, flushing, index,
           callbacks, pending, scheduled, issued, invoked, hist >>

(***************************************************************************)
(* Bounds of the model.                                                    *)
(***************************************************************************)
\* watchers constructed in SpecOrder and SpecValues
MaxWatchers == 3
\* watchers constructed in Spec, SpecTeardown and SpecLazy
MaxFewWatchers == 2

(***************************************************************************)
(* JavaScript values.  A value is a number, NaN, undefined or a reference  *)
(* to a container of the heap.                                             *)
(***************************************************************************)
Num(n) == [t |-> "num", v |-> n]
NaN == [t |-> "nan", v |-> 0]
Undef == [t |-> "undef", v |-> 0]
Ref(o) == [t |-> "ref", v |-> o]
Null == [t |-> "null", v |-> 0]
\* a property key that is a string
Str(k) == [t |-> "str", v |-> k]
\* an array that is not part of the heap (the result of splice)
List(s) == [t |-> "list", v |-> s]

\* a === b: NaN is not equal to itself
StrictEq(a, b) == a.t # "nan" /\ a = b

\* util: isObject(obj) = obj !== null && typeof obj === 'object'
isObject(x) == x.t = "ref"

\* shared/util: isUndef(v) = v === undefined || v === null
isUndef(x) == x.t \in {"undef", "null"}

\* shared/util: isPrimitive(v): string, number, symbol or boolean
isPrimitive(x) == x.t \in {"num", "nan", "str"}

\* shared/util: isValidArrayIndex(val): a non-negative finite integer
isValidArrayIndex(x) == x.t = "num" /\ x.v >= 0

\* util/env: isServerRendering(); the model runs in a browser
isServerRendering == FALSE

(***************************************************************************)
(* The program state as one record, and its write-back to the variables.   *)
(* ret and retOb carry a handler's return value to its caller; events is   *)
(* the log of what the handlers applied did, in order, and warnings the    *)
(* number of diagnostics they emitted; thrown tells that the handler ended *)
(* by throwing to its caller, and errors lists what handleError was given. *)
(***************************************************************************)
State ==
    [ heap |-> heap, shouldObserve |-> shouldObserve, subs |-> subs,
      watchers |-> watchers, uid |-> uid, vmWatchers |-> vmWatchers,
      targetStack |-> targetStack, seenObjects |-> seenObjects,
      queue |-> queue, has |-> has, circular |-> circular,
      waiting |-> waiting, flushing |-> flushing, index |-> index,
      callbacks |-> callbacks, pending |-> pending, scheduled |-> scheduled,
      issued |-> issued, invoked |-> invoked,
      warnings |-> 0, hist |-> hist, events |-> << >>,
      ret |-> Undef, retOb |-> 0, thrown |-> FALSE, errors |-> << >> ]

Commit(S) ==
    /\ heap' = S.heap
    /\ shouldObserve' = S.shouldObserve
    /\ subs' = S.subs
    /\ watchers' = S.watchers
    /\ uid' = S.uid
    /\ vmWatchers' = S.vmWatchers
    /\ targetStack' = S.targetStack
    /\ seenObjects' = S.seenObjects
    /\ queue' = S.queue
    /\ has' = S.has
    /\ circular' = S.circular
    /\ waiting' = S.waiting
    /\ flushing' = S.flushing
    /\ index' = S.index
    /\ callbacks' = S.callbacks
    /\ pending' = S.pending
    /\ scheduled' = S.scheduled
    /\ issued' = S.issued
    /\ invoked' = S.invoked
    /\ hist' = S.hist

\* one entry of the log
Ev(e, w, d, a, b) == [e |-> e, w |-> w, d |-> d, a |-> a, b |-> b]
Log(S, ev) == [S EXCEPT !.events = Append(@, ev)]
warn(S) == [S EXCEPT !.warnings = @ + 1]

\* the info given to handleError: 'nextTick', or 'getter for watcher' and
\* 'callback for watcher' with the expression of watcher w
Info(what, w) == [what |-> what, w |-> w]

\* the vm of the watchers
Vm == [t |-> "vm", v |-> 0]

\* handleError(err, vm, info) of util/error.js, from spec.md 6 and 7: the
\* diagnostic channel takes the error that was caught, and never throws
handleError(S, vm, info) ==
    [S EXCEPT !.errors = Append(@, [vm |-> vm, info |-> info]),
              !.thrown = FALSE]

(***************************************************************************)
(* Dep (observer/dep.js), from spec.md 4.1 and 5.                          *)
(***************************************************************************)
\* Dep.target
Target(S) ==
    IF S.targetStack = << >> THEN 0 ELSE S.targetStack[Len(S.targetStack)]

pushTarget(S, w) == [S EXCEPT !.targetStack = Append(@, w)]

popTarget(S) ==
    [S EXCEPT !.targetStack = SubSeq(@, 1, Len(@) - 1)]

\* new Dep(): the next id, an empty subscriber list
newDep(S) == [S EXCEPT !.subs = Append(@, << >>)]

\* util: remove(arr, item), the first occurrence
indexOf(s, x) ==
    IF \E i \in 1..Len(s) : s[i] = x
    THEN CHOOSE i \in 1..Len(s) : s[i] = x /\ \A j \in 1..(i - 1) : s[j] # x
    ELSE 0

remove(s, x) ==
    LET i == indexOf(s, x)
    IN  IF i = 0 THEN s ELSE SubSeq(s, 1, i - 1) \o SubSeq(s, i + 1, Len(s))

addSub(S, d, w) == [S EXCEPT !.subs[d] = Append(@, w)]

removeSub(S, d, w) == [S EXCEPT !.subs[d] = remove(@, w)]

(***************************************************************************)
(* Watcher.addDep and Watcher.cleanupDeps.                                 *)
(***************************************************************************)
\* addDep with the subscription left out: the dep is recorded, the watcher
\* never enters its subscriber list
addDepNoSub(S, w, d) ==
    IF d \notin S.watchers[w].newDepIds
    THEN [S EXCEPT !.watchers[w].newDepIds = @ \cup {d},
                   !.watchers[w].newDeps = Append(@, d)]
    ELSE S

addDep(S, w, d) ==
    IF d \notin S.watchers[w].newDepIds
    THEN LET S1 == [S EXCEPT !.watchers[w].newDepIds = @ \cup {d},
                             !.watchers[w].newDeps = Append(@, d)]
         IN  IF d \notin S.watchers[w].depIds THEN addSub(S1, d, w) ELSE S1
    ELSE S

\* Dep.depend()
depend(S, d) == IF Target(S) # 0 THEN addDep(S, Target(S), d) ELSE S

RECURSIVE cleanupLoop(_, _, _)
cleanupLoop(S, w, i) ==
    IF i = 0 THEN S
    ELSE LET d == S.watchers[w].deps[i]
         IN  cleanupLoop(IF d \notin S.watchers[w].newDepIds
                         THEN removeSub(S, d, w) ELSE S,
                         w, i - 1)

\* cleanupDeps with the removal loop left out: the sets are only swapped
cleanupDepsNoRemove(S, w) ==
    LET W == S.watchers[w]
    IN  [S EXCEPT !.watchers[w] =
            [W EXCEPT !.depIds = W.newDepIds, !.newDepIds = {},
                      !.deps = W.newDeps, !.newDeps = << >>]]

\* cleanupDeps that swaps the sets and does not clear the working set
cleanupDepsNoClear(S, w) ==
    LET S1 == cleanupLoop(S, w, Len(S.watchers[w].deps))
        W == S1.watchers[w]
    IN  [S1 EXCEPT !.watchers[w] =
            [W EXCEPT !.depIds = W.newDepIds, !.newDepIds = W.depIds,
                      !.deps = W.newDeps, !.newDeps = W.deps]]

cleanupDeps(S, w) ==
    LET swap(S1) ==
            [S1 EXCEPT !.watchers[w] =
                [@ EXCEPT !.depIds = S1.watchers[w].newDepIds,
                          !.newDepIds = {},
                          !.deps = S1.watchers[w].newDeps,
                          !.newDeps = << >>]]
    IN  swap(cleanupLoop(S, w, Len(S.watchers[w].deps)))

(***************************************************************************)
(* The heap.  A container is a record                                      *)
(*   kind    "record" (plain object), "array", or "other"                  *)
(*   ext     Object.isExtensible      frozen  Object.isFrozen              *)
(*   isVue   the _isVue flag of a component instance                       *)
(*   ob      its __ob__: the id of the Observer's dep, 0 when it has none  *)
(*   vmCount Observer.vmCount                                              *)
(*   keys    its own enumerable keys, in Object.keys order                 *)
(*   prop    per key, the property (a slot)                                *)
(*   elems   the elements of an array                                      *)
(* A slot holds the property as defineReactive leaves it:                  *)
(*   dep     the id of the dep of its accessor pair, 0 for a property      *)
(*           defineReactive has not converted                              *)
(*   val, childOb, shallow   the closure variables of defineReactive       *)
(*           (childOb is the container whose Observer it is, 0 for none)   *)
(*   cfg     configurable                                                  *)
(*   get, set  it had a getter / a setter of its own; back is what that    *)
(*           accessor pair reads and writes                                *)
(***************************************************************************)
Keys == {"a", "b", "x"}

Slot(v) ==
    [val |-> v, dep |-> 0, childOb |-> 0, shallow |-> FALSE, cfg |-> TRUE,
     get |-> FALSE, set |-> FALSE, back |-> Undef]

hasOwn(S, o, k) == \E i \in 1..Len(S.heap[o].keys) : S.heap[o].keys[i] = k

isArray(S, x) == isObject(x) /\ S.heap[x.v].kind = "array"

isPlainObject(S, x) == isObject(x) /\ S.heap[x.v].kind = "record"

\* what reading obj[key] yields before defineReactive converted the property
ownValue(S, o, k) ==
    LET p == S.heap[o].prop[k]
    IN  IF ~hasOwn(S, o, k) THEN Undef
        ELSE IF p.get THEN p.back ELSE p.val

\* history: the active watcher read field k of container o
noteRead(S, o, k) ==
    [S EXCEPT !.hist[Target(S)].cur = @ \cup {<<o, k>>}]

RECURSIVE dependArray(_, _, _)
dependArray(S, a, i) ==
    IF i > Len(S.heap[a].elems) THEN S
    ELSE LET e == S.heap[a].elems[i]
             nested(S1) ==
                 IF isArray(S1, e) THEN dependArray(S1, e.v, 1) ELSE S1
         IN  dependArray(nested(IF isObject(e) /\ S.heap[e.v].ob # 0
                                THEN depend(S, S.heap[e.v].ob) ELSE S),
                         a, i + 1)

reactiveGetter(S, o, k) ==
    LET p == S.heap[o].prop[k]
        value == IF p.get THEN p.back ELSE p.val
        elements(T2) ==
            IF isArray(T2, value) THEN dependArray(T2, value.v, 1) ELSE T2
        child(T1) ==
            IF p.childOb # 0
            THEN elements(depend(T1, T1.heap[p.childOb].ob))
            ELSE T1
    IN  [IF Target(S) # 0
         THEN child(depend(noteRead(S, o, k), p.dep))
         ELSE S EXCEPT !.ret = value]

\* obj[key]
getProp(S, o, k) ==
    IF hasOwn(S, o, k) /\ S.heap[o].prop[k].dep # 0
    THEN reactiveGetter(S, o, k)
    ELSE [S EXCEPT !.ret = ownValue(S, o, k)]

RECURSIVE observe(_, _, _)

\* defineReactive that forgets the accessor the property had
defineReactiveDropsAccessor(S, o, k, hasVal, val0, shallow) ==
    LET d == Len(S.subs) + 1
        own == hasOwn(S, o, k)
        p == S.heap[o].prop[k]
        val == IF ~hasVal THEN ownValue(S, o, k) ELSE val0
        S1 == IF shallow THEN [newDep(S) EXCEPT !.retOb = 0]
              ELSE observe(newDep(S), val, FALSE)
    IN  IF own /\ ~p.cfg THEN newDep(S)
        ELSE [S1 EXCEPT
                 !.heap[o].keys = IF own THEN @ ELSE Append(@, k),
                 !.heap[o].prop[k] =
                     [val |-> val, dep |-> d, childOb |-> S1.retOb,
                      shallow |-> shallow, cfg |-> TRUE,
                      get |-> FALSE, set |-> FALSE, back |-> Undef]]

defineReactive(S, o, k, hasVal, val0, shallow) ==
    LET d == Len(S.subs) + 1
        own == hasOwn(S, o, k)
        p == S.heap[o].prop[k]
        getter == own /\ p.get
        setter == own /\ p.set
        val == IF (~getter \/ setter) /\ ~hasVal THEN ownValue(S, o, k)
               ELSE IF hasVal THEN val0 ELSE Undef
        define(S2) ==
            [S2 EXCEPT
                !.heap[o].keys = IF own THEN @ ELSE Append(@, k),
                !.heap[o].prop[k] =
                    [val |-> val, dep |-> d, childOb |-> S2.retOb,
                     shallow |-> shallow, cfg |-> TRUE,
                     get |-> getter, set |-> setter,
                     back |-> IF own THEN p.back ELSE Undef]]
    IN  IF own /\ ~p.cfg THEN newDep(S)
        ELSE define(IF shallow THEN [newDep(S) EXCEPT !.retOb = 0]
                    ELSE observe(newDep(S), val, FALSE))

RECURSIVE walkLoop(_, _, _)
walkLoop(S, o, i) ==
    IF i > Len(S.heap[o].keys) THEN S
    ELSE walkLoop(defineReactive(S, o, S.heap[o].keys[i], FALSE, Undef, FALSE),
                  o, i + 1)

walk(S, o) == walkLoop(S, o, 1)

RECURSIVE observeArray(_, _, _)
observeArray(S, items, i) ==
    IF i > Len(items) THEN S
    ELSE observeArray(observe(S, items[i], FALSE), items, i + 1)

\* new Observer(value)
Observer(S, o) ==
    LET S2 == [newDep(S) EXCEPT !.heap[o].ob = Len(S.subs) + 1,
                                !.heap[o].vmCount = 0]
    IN  IF S.heap[o].kind = "array"
        THEN observeArray(S2, S.heap[o].elems, 1)
        ELSE walk(S2, o)

\* observe that does not look for the Observer the value has
observeAgain(S, value, asRootData) ==
    IF ~isObject(value) THEN [S EXCEPT !.retOb = 0]
    ELSE LET o == value.v
             result(S1) ==
                 IF S1.heap[o].ob = 0 THEN [S1 EXCEPT !.retOb = 0]
                 ELSE [S1 EXCEPT !.retOb = o,
                                 !.heap[o].vmCount =
                                     IF asRootData THEN @ + 1 ELSE @]
         IN  result(IF /\ S.shouldObserve
                       /\ ~isServerRendering
                       /\ (isArray(S, value) \/ isPlainObject(S, value))
                       /\ S.heap[o].ext
                       /\ ~S.heap[o].isVue
                    THEN Observer(S, o)
                    ELSE S)

\* toggleObserving(value)
toggleObserving(S, value) == [S EXCEPT !.shouldObserve = value]

\* observe that does not look at shouldObserve
observeAlways(S, value, asRootData) ==
    IF ~isObject(value) THEN [S EXCEPT !.retOb = 0]
    ELSE LET o == value.v
             result(S1) ==
                 IF S1.heap[o].ob = 0 THEN [S1 EXCEPT !.retOb = 0]
                 ELSE [S1 EXCEPT !.retOb = o,
                                 !.heap[o].vmCount =
                                     IF asRootData THEN @ + 1 ELSE @]
         IN  result(IF S.heap[o].ob # 0 THEN S
                    ELSE IF /\ ~isServerRendering
                            /\ (isArray(S, value) \/ isPlainObject(S, value))
                            /\ S.heap[o].ext
                            /\ ~S.heap[o].isVue
                         THEN Observer(S, o)
                         ELSE S)

observe(S, value, asRootData) ==
    IF ~isObject(value) THEN [S EXCEPT !.retOb = 0]
    ELSE LET o == value.v
             result(S1) ==
                 IF S1.heap[o].ob = 0 THEN [S1 EXCEPT !.retOb = 0]
                 ELSE [S1 EXCEPT !.retOb = o,
                                 !.heap[o].vmCount =
                                     IF asRootData THEN @ + 1 ELSE @]
         IN  result(IF S.heap[o].ob # 0 THEN S
                    ELSE IF /\ S.shouldObserve
                            /\ ~isServerRendering
                            /\ (isArray(S, value) \/ isPlainObject(S, value))
                            /\ S.heap[o].ext
                            /\ ~S.heap[o].isVue
                         THEN Observer(S, o)
                         ELSE S)

(***************************************************************************)
(* traverse.js                                                             *)
(*                                                                         *)
(* _traverse calls itself once per level of the value.  The engine's call  *)
(* stack is finite: a call nested deeper than MaxStack throws a RangeError *)
(* (thrown), which unwinds every call of _traverse and traverse.  Every    *)
(* container whose children _traverse goes on to read is logged as a       *)
(* "visit" with the id of its Observer's dep (0 when it has none).         *)
(***************************************************************************)
\* the nested calls of _traverse the call stack has room for
MaxStack == 6

RECURSIVE _traverse(_, _, _), traverseElems(_, _, _, _),
          traverseKeys(_, _, _, _, _)

_traverse(S, val, depth) ==
    IF S.thrown THEN S
    ELSE IF depth > MaxStack THEN [S EXCEPT !.thrown = TRUE]
    ELSE IF (~isArray(S, val) /\ ~isObject(val)) \/ S.heap[val.v].frozen
    THEN S
    ELSE LET o == val.v
             depId == S.heap[o].ob
             S1 == Log(IF depId # 0
                       THEN [S EXCEPT !.seenObjects = @ \cup {depId}] ELSE S,
                       Ev("visit", 0, depId, val, Undef))
         IN  IF depId # 0 /\ depId \in S.seenObjects THEN S
             ELSE IF isArray(S, val)
                  THEN traverseElems(S1, o, Len(S1.heap[o].elems), depth)
                  ELSE traverseKeys(S1, o, S1.heap[o].keys,
                                    Len(S1.heap[o].keys), depth)

\* i = val.length; while (i--) _traverse(val[i], seen)
traverseElems(S, o, i, depth) ==
    IF i = 0 \/ S.thrown THEN S
    ELSE traverseElems(_traverse(S, S.heap[o].elems[i], depth + 1),
                       o, i - 1, depth)

\* i = keys.length; while (i--) _traverse(val[keys[i]], seen)
traverseKeys(S, o, keys, i, depth) ==
    IF i = 0 \/ S.thrown THEN S
    ELSE LET visit(S1) == _traverse(S1, S1.ret, depth + 1)
         IN  traverseKeys(visit(getProp(S, o, keys[i])), o, keys, i - 1,
                          depth)

\* _traverse(val, seenObjects); seenObjects.clear()
traverse(S, val) ==
    LET clear(S1) ==
            IF S1.thrown THEN S1 ELSE [S1 EXCEPT !.seenObjects = {}]
    IN  clear(_traverse(S, val, 1))

(***************************************************************************)
(* next-tick.  A callback is a record; fn names the function.              *)
(***************************************************************************)
\* A function given to nextTick: flushSchedulerQueue, or a callback of the
\* application, which has an identity and may call nextTick itself with a
\* callback that does not, or throw; NoCallback stands for a call of
\* nextTick without a callback.
FlushCb ==
    [fn |-> "flushSchedulerQueue", id |-> 0, again |-> FALSE, throws |-> FALSE]
UserCb(id, again) ==
    [fn |-> "user", id |-> id, again |-> again, throws |-> FALSE]
ThrowingCb(id) == [UserCb(id, FALSE) EXCEPT !.throws = TRUE]
NoCallback(id) ==
    [fn |-> "undefined", id |-> id, again |-> FALSE, throws |-> FALSE]

\* the value nextTick returns without a callback, where Promise exists: the
\* promise of the n-th call of the application
Promise(n) == [t |-> "promise", v |-> n]

\* the closure nextTick pushes, which calls cb with ctx as this, or without
\* a cb calls the _resolve of the promise that nextTick returned
Closure(cb, ctx) ==
    [cb |-> cb, ctx |-> ctx,
     _resolve |-> IF cb.fn = "undefined" THEN cb.id ELSE 0]

\* timerFunc(): hands one flushCallbacks invocation to the platform
timerFunc(S) == [S EXCEPT !.scheduled = @ + 1]

\* nextTick that pushes a closure which calls cb without a this
nextTickNoCtx(S, cb, ctx) ==
    LET S1 == [Log(S, Ev("nextTick", 0, 0, Undef, Undef)) EXCEPT
                  !.callbacks = Append(@, Closure(cb, Undef))]
    IN  IF ~S1.pending THEN timerFunc([S1 EXCEPT !.pending = TRUE]) ELSE S1

\* nextTick that without a callback resolves the promise before it
\* returns it
nextTickResolvesAtOnce(S, cb, ctx) ==
    LET S1 == [Log(S, Ev("nextTick", 0, 0, Undef, Undef)) EXCEPT
                  !.callbacks =
                      IF cb.fn = "undefined" THEN @
                      ELSE Append(@, [cb |-> cb, ctx |-> ctx, _resolve |-> 0]),
                  !.invoked =
                      IF cb.fn # "undefined" THEN @
                      ELSE Append(@, [id |-> cb.id, this |-> ctx,
                                      how |-> "resolve"]),
                  !.ret = IF cb.fn = "undefined"
                          THEN [t |-> "promise", v |-> cb.id] ELSE Undef]
    IN  IF ~S1.pending THEN timerFunc([S1 EXCEPT !.pending = TRUE]) ELSE S1

nextTick(S, cb, ctx) ==
    LET S1 == [Log(S, Ev("nextTick", 0, 0, Undef, Undef)) EXCEPT
                  !.callbacks = Append(@, Closure(cb, ctx)),
                  !.ret = IF cb.fn = "undefined" THEN Promise(cb.id)
                          ELSE Undef]
    IN  IF ~S1.pending THEN timerFunc([S1 EXCEPT !.pending = TRUE]) ELSE S1

(***************************************************************************)
(* Scheduler (observer/scheduler.js), from spec.md 4.5: queueWatcher.      *)
(***************************************************************************)
MAX_UPDATE_COUNT == 100

\* the position after which a watcher enqueued during the flush is spliced
\* in: behind the cursor, and behind every entry with a smaller id
RECURSIVE insertAt(_, _, _)
insertAt(S, id, i) ==
    IF i > S.index + 1 /\ S.watchers[S.queue[i]].id > id
    THEN insertAt(S, id, i - 1) ELSE i

queueWatcher(S, w) ==
    LET id == S.watchers[w].id
    IN  IF id \in S.has THEN S
        ELSE LET S1 == [Log(S, Ev("queue", w, 0, Undef, Undef)) EXCEPT
                           !.has = @ \cup {id}]
                 i == insertAt(S1, id, Len(S1.queue))
                 S2 == IF ~S1.flushing
                       THEN [S1 EXCEPT !.queue = Append(@, w)]
                       ELSE [S1 EXCEPT !.queue =
                                SubSeq(@, 1, i) \o <<w>>
                                    \o SubSeq(@, i + 1, Len(@))]
             IN  IF ~S2.waiting
                 THEN nextTick([S2 EXCEPT !.waiting = TRUE], FlushCb, Undef)
                 ELSE S2

(***************************************************************************)
(* Watcher: get, run, update, evaluate, depend, teardown.  The computation *)
(* (expr) and the callback (cb) of a watcher are inputs:                   *)
(*   expr  "path": vm[k] of container o                                    *)
(*         "cond": o.a === 1 ? o.b : o.a                                   *)
(*         "unless": o.b === 1 ? o.b : o.a                                 *)
(*         "computed": the getter of a computed property whose lazy        *)
(*                     watcher is l                                        *)
(*         "after": the computed property of l, then o[k]                  *)
(*         "nested": o.a[k] when o.a is an object                          *)
(*         "length": o[k].length when o[k] is an array                     *)
(*         "elem": o[k][0].x when o[k][0] is an object                     *)
(*         "throwing": o.b, after throwing an error when o[k] === 1        *)
(*   cb    "none": does nothing   "write": o[k] = v                        *)
(*         "flip": o[k] = o[k] === 0 ? 1 : 0                               *)
(*         "throw": throws an error                                        *)
(* An error thrown ends every handler on the way to the catch that takes   *)
(* it: the handlers pass on a state with thrown set.                       *)
(***************************************************************************)
RECURSIVE get(_, _), setProp(_, _, _, _)

\* evaluate that leaves the watcher dirty
evaluateStaysDirty(S, w) ==
    LET S1 == get(S, w)
    IN  [S1 EXCEPT !.watchers[w].value = S1.ret]

evaluate(S, w) ==
    LET cache(S1) ==
            IF S1.thrown THEN S1
            ELSE [S1 EXCEPT !.watchers[w].value = S1.ret,
                            !.watchers[w].dirty = FALSE]
    IN  cache(get(S, w))

RECURSIVE dependLoop(_, _, _)
dependLoop(S, w, i) ==
    IF i = 0 THEN S
    ELSE dependLoop(depend(S, S.watchers[w].deps[i]), w, i - 1)

\* depend that hands on only the first dep collected
Watcher_dependFirstOnly(S, w) ==
    IF S.watchers[w].deps = << >> THEN S
    ELSE depend(S, S.watchers[w].deps[1])

\* Watcher.depend()
Watcher_depend(S, w) == dependLoop(S, w, Len(S.watchers[w].deps))

\* core/instance/state.js, createComputedGetter
computedGetter(S, l) ==
    LET value(S2) == [S2 EXCEPT !.ret = S2.watchers[l].value]
        collect(S1) ==
            IF S1.thrown THEN S1
            ELSE value(IF Target(S1) # 0 THEN Watcher_depend(S1, l) ELSE S1)
    IN  collect(IF S.watchers[l].dirty THEN evaluate(S, l) ELSE S)

evalExpr(S, e) ==
    CASE e.op = "path" -> getProp(S, e.o, e.k)
      [] e.op = "cond" ->
            LET branch(S1) ==
                    IF StrictEq(S1.ret, Num(1)) THEN getProp(S1, e.o, "b")
                    ELSE S1
            IN  branch(getProp(S, e.o, "a"))
      [] e.op = "unless" ->
            LET branch(S1) ==
                    IF StrictEq(S1.ret, Num(1)) THEN S1
                    ELSE getProp(S1, e.o, "a")
            IN  branch(getProp(S, e.o, "b"))
      [] e.op = "computed" -> computedGetter(S, e.l)
      [] e.op = "after" ->
            LET field(S1) ==
                    IF S1.thrown THEN S1 ELSE getProp(S1, e.o, e.k)
            IN  field(computedGetter(S, e.l))
      [] e.op = "nested" ->
            LET field(S1) ==
                    IF isObject(S1.ret) THEN getProp(S1, S1.ret.v, e.k)
                    ELSE [S1 EXCEPT !.ret = Undef]
            IN  field(getProp(S, e.o, "a"))
      [] e.op = "length" ->
            LET len(S1) ==
                    [S1 EXCEPT !.ret = IF isArray(S1, @)
                                       THEN Num(Len(S1.heap[@.v].elems))
                                       ELSE Undef]
            IN  len(getProp(S, e.o, e.k))
      [] e.op = "elem" ->
            LET field(S1) ==
                    IF isArray(S1, S1.ret)
                       /\ S1.heap[S1.ret.v].elems # << >>
                       /\ isObject(S1.heap[S1.ret.v].elems[1])
                    THEN getProp(S1, S1.heap[S1.ret.v].elems[1].v, "x")
                    ELSE [S1 EXCEPT !.ret = Undef]
            IN  field(getProp(S, e.o, e.k))
      [] e.op = "throwing" ->
            LET check(S1) ==
                    IF StrictEq(S1.ret, Num(1))
                    THEN [S1 EXCEPT !.thrown = TRUE, !.ret = Undef]
                    ELSE getProp(S1, e.o, "b")
            IN  check(getProp(S, e.o, e.k))

invokeCb(S, w, value, oldValue) ==
    LET c == S.watchers[w].cb
        S1 == Log(S, Ev("cb", w, 0, value, oldValue))
    IN  CASE c.op = "none" -> S1
          [] c.op = "throw" -> [S1 EXCEPT !.thrown = TRUE]
          [] c.op = "write" -> setProp(S1, c.o, c.k, c.v)
          [] c.op = "flip" ->
                setProp(S1, c.o, c.k, IF ownValue(S, c.o, c.k) = Num(0)
                                      THEN Num(1) ELSE Num(0))

\* invokeWithErrorHandling(cb, vm, [value, oldValue], vm, info) of
\* util/error.js, from spec.md 4.4 and 7: calls the callback and hands what
\* it throws to handleError
invokeWithErrorHandling(S, w, value, oldValue) ==
    LET caught(S1) ==
            IF S1.thrown
            THEN handleError(S1, Vm, Info("callback for watcher", w))
            ELSE S1
    IN  caught(invokeCb(S, w, value, oldValue))

\* run that does not look at this.active
runIgnoresActive(S, w) ==
    LET S0 == Log(S, Ev("run", w, 0, Undef, Undef))
        compare(S1) ==
            LET value == S1.ret
                W == S1.watchers[w]
            IN  IF S1.thrown THEN S1
                ELSE IF ~StrictEq(value, W.value) \/ isObject(value)
                        \/ W.deep
                THEN invokeCb([S1 EXCEPT !.watchers[w].value = value],
                              w, value, W.value)
                ELSE S1
    IN  compare(get(S0, w))

\* run that calls the callback of a user watcher as it calls the others
runCallsBare(S, w) ==
    LET S0 == Log(S, Ev("run", w, 0, Undef, Undef))
        compare(S1) ==
            LET value == S1.ret
                W == S1.watchers[w]
            IN  IF S1.thrown THEN S1
                ELSE IF ~StrictEq(value, W.value) \/ isObject(value)
                        \/ W.deep
                THEN invokeCb([S1 EXCEPT !.watchers[w].value = value],
                              w, value, W.value)
                ELSE S1
    IN  IF ~S.watchers[w].active THEN S0 ELSE compare(get(S0, w))

\* run that does not invoke the callback
runNoCallback(S, w) ==
    LET S0 == Log(S, Ev("run", w, 0, Undef, Undef))
        compare(S1) ==
            IF ~StrictEq(S1.ret, S1.watchers[w].value) \/ isObject(S1.ret)
               \/ S1.watchers[w].deep
            THEN [S1 EXCEPT !.watchers[w].value = S1.ret]
            ELSE S1
    IN  IF ~S.watchers[w].active THEN S0 ELSE compare(get(S0, w))

run(S, w) ==
    LET S0 == Log(S, Ev("run", w, 0, Undef, Undef))
        call(S2, value, oldValue) ==
            IF S2.watchers[w].user
            THEN invokeWithErrorHandling(S2, w, value, oldValue)
            ELSE invokeCb(S2, w, value, oldValue)
        compare(S1) ==
            LET value == S1.ret
                W == S1.watchers[w]
            IN  IF S1.thrown THEN S1
                ELSE IF ~StrictEq(value, W.value) \/ isObject(value)
                        \/ W.deep
                THEN call([S1 EXCEPT !.watchers[w].value = value],
                          value, W.value)
                ELSE S1
    IN  IF ~S.watchers[w].active THEN S0 ELSE compare(get(S0, w))

\* update that treats every watcher as lazy: it only marks it dirty
updateOnlyDirty(S, w) ==
    [Log(S, Ev("update", w, 0, Undef, Undef)) EXCEPT
        !.watchers[w].dirty = TRUE]

\* update that, called while a flush is running, runs the watcher at once
updateRunsAtOnce(S, w) ==
    LET S0 == Log(S, Ev("update", w, 0, Undef, Undef))
    IN  IF S.watchers[w].lazy THEN [S0 EXCEPT !.watchers[w].dirty = TRUE]
        ELSE IF S.watchers[w].sync \/ S.flushing THEN run(S0, w)
        ELSE queueWatcher(S0, w)

\* update that hands a sync watcher to the scheduler like any other
updateQueuesSync(S, w) ==
    LET S0 == Log(S, Ev("update", w, 0, Undef, Undef))
    IN  IF S.watchers[w].lazy THEN [S0 EXCEPT !.watchers[w].dirty = TRUE]
        ELSE queueWatcher(S0, w)

\* update that leaves a lazy watcher's cache marked valid
updateKeepsCache(S, w) ==
    LET S0 == Log(S, Ev("update", w, 0, Undef, Undef))
    IN  IF S.watchers[w].lazy THEN S0
        ELSE IF S.watchers[w].sync THEN run(S0, w)
        ELSE queueWatcher(S0, w)

update(S, w) ==
    LET S0 == Log(S, Ev("update", w, 0, Undef, Undef))
    IN  IF S.watchers[w].lazy THEN [S0 EXCEPT !.watchers[w].dirty = TRUE]
        ELSE IF S.watchers[w].sync THEN run(S0, w)
        ELSE queueWatcher(S0, w)

\* teardown that leaves the watcher in the subscriber lists of its deps
teardownKeepsSubs(S, w, isBeingDestroyed) ==
    IF S.watchers[w].active
    THEN LET S1 == IF ~isBeingDestroyed
                   THEN [S EXCEPT !.vmWatchers = remove(@, w)] ELSE S
         IN  [S1 EXCEPT !.watchers[w].active = FALSE]
    ELSE S

RECURSIVE teardownLoop(_, _, _)
teardownLoop(S, w, i) ==
    IF i = 0 THEN S
    ELSE teardownLoop(removeSub(S, S.watchers[w].deps[i], w), w, i - 1)

teardown(S, w, isBeingDestroyed) ==
    IF S.watchers[w].active
    THEN LET S1 == IF ~isBeingDestroyed
                   THEN [S EXCEPT !.vmWatchers = remove(@, w)] ELSE S
             S2 == teardownLoop(S1, w, Len(S1.watchers[w].deps))
         IN  [S2 EXCEPT !.watchers[w].active = FALSE]
    ELSE S

(***************************************************************************)
(* Dep.notify(), from spec.md 4.1: update() on a snapshot of the list.     *)
(* The log tells of each call of update() which call of notify() made it:  *)
(* event "each" of the watcher, with the dep, the number n of the call of  *)
(* notify() in the log and the position i in the list.                     *)
(***************************************************************************)
\* notify that walks the list of subscribers itself, not a copy of it
RECURSIVE notifyLiveLoop(_, _, _, _)
notifyLiveLoop(S, d, i, n) ==
    IF i > Len(S.subs[d]) \/ S.thrown THEN S
    ELSE notifyLiveLoop(update(Log(S, Ev("each", S.subs[d][i], d,
                                         Num(n), Num(i))),
                               S.subs[d][i]),
                        d, i + 1, n)

notifyLive(S, d) ==
    notifyLiveLoop(Log(S, Ev("notify", 0, d, Undef, Undef)), d, 1,
                   Cardinality({p \in 1..Len(S.events) :
                                  S.events[p].e = "notify"}) + 1)

RECURSIVE notifyLoop(_, _, _, _)
notifyLoop(S, snapshot, i, call) ==
    IF i > Len(snapshot) \/ S.thrown THEN S
    ELSE notifyLoop(update(Log(S, Ev("each", snapshot[i], call.d,
                                     Num(call.n), Num(i))),
                           snapshot[i]),
                    snapshot, i + 1, call)

notify(S, d) ==
    notifyLoop(Log(S, Ev("notify", 0, d, Undef, Undef)), S.subs[d], 1,
               [d |-> d,
                n |-> Cardinality({p \in 1..Len(S.events) :
                                     S.events[p].e = "notify"}) + 1])

(***************************************************************************)
(* defineReactive: the setter, and plain assignment obj[key] = v.          *)
(***************************************************************************)
\* the setter without the exception for NaN
reactiveSetterNoNaN(S, o, k, newVal) ==
    LET p == S.heap[o].prop[k]
        value == IF p.get THEN p.back ELSE p.val
    IN  IF StrictEq(newVal, value) THEN S
        ELSE IF p.get /\ ~p.set THEN S
        ELSE LET S1 == IF p.set
                       THEN [S EXCEPT !.heap[o].prop[k].back = newVal]
                       ELSE [S EXCEPT !.heap[o].prop[k].val = newVal]
                 S2 == IF p.shallow THEN [S1 EXCEPT !.retOb = 0]
                       ELSE observe(S1, newVal, FALSE)
                 S3 == [S2 EXCEPT !.heap[o].prop[k].childOb = S2.retOb]
             IN  notify(S3, p.dep)

\* reactiveSetter that notifies before it stores and wraps the new value
reactiveSetterNotifiesFirst(S, o, k, newVal) ==
    LET p == S.heap[o].prop[k]
        value == IF p.get THEN p.back ELSE p.val
    IN  IF StrictEq(newVal, value)
           \/ (~StrictEq(newVal, newVal) /\ ~StrictEq(value, value))
        THEN S
        ELSE IF p.get /\ ~p.set THEN S
        ELSE LET S1 == notify(S, p.dep)
                 S2 == IF p.set
                       THEN [S1 EXCEPT !.heap[o].prop[k].back = newVal]
                       ELSE [S1 EXCEPT !.heap[o].prop[k].val = newVal]
                 S3 == IF p.shallow THEN [S2 EXCEPT !.retOb = 0]
                       ELSE observe(S2, newVal, FALSE)
             IN  [S3 EXCEPT !.heap[o].prop[k].childOb = S3.retOb]

reactiveSetter(S, o, k, newVal) ==
    LET p == S.heap[o].prop[k]
        value == IF p.get THEN p.back ELSE p.val
    IN  IF StrictEq(newVal, value)
           \/ (~StrictEq(newVal, newVal) /\ ~StrictEq(value, value))
        THEN S
        ELSE IF p.get /\ ~p.set THEN S
        ELSE LET S1 == IF p.set
                       THEN [S EXCEPT !.heap[o].prop[k].back = newVal]
                       ELSE [S EXCEPT !.heap[o].prop[k].val = newVal]
                 child(S2) ==
                     [S2 EXCEPT !.heap[o].prop[k].childOb = S2.retOb]
             IN  notify(child(IF p.shallow THEN [S1 EXCEPT !.retOb = 0]
                              ELSE observe(S1, newVal, FALSE)),
                        p.dep)

setProp(S, o, k, v) ==
    LET p == S.heap[o].prop[k]
    IN  IF hasOwn(S, o, k)
        THEN IF p.dep # 0 THEN reactiveSetter(S, o, k, v)
             ELSE IF p.get
                  THEN IF p.set THEN [S EXCEPT !.heap[o].prop[k].back = v]
                       ELSE S
                  ELSE [S EXCEPT !.heap[o].prop[k].val = v]
        ELSE IF S.heap[o].ext
             THEN [S EXCEPT !.heap[o].keys = Append(@, k),
                            !.heap[o].prop[k] = Slot(v)]
             ELSE S

\* get that leaves the watcher on the stack of targets
getLeavesTarget(S, w) ==
    LET S0 == [pushTarget(Log(S, Ev("get", w, 0, Undef, Undef)), w) EXCEPT
                  !.hist[w].cur = {}]
        return(S3, value) ==
            [S3 EXCEPT !.ret = value,
                       !.hist[w].reads = S3.hist[w].cur,
                       !.hist[w].ever = @ \cup S3.hist[w].cur]
        finally(S1) ==
            return(cleanupDeps(IF S1.watchers[w].deep
                               THEN traverse(S1, S1.ret) ELSE S1,
                               w),
                   S1.ret)
        catch(S1) ==
            IF S1.thrown
            THEN IF S1.watchers[w].user
                 THEN [handleError(S1, Vm, Info("getter for watcher", w))
                          EXCEPT !.ret = Undef]
                 ELSE [S1 EXCEPT !.ret = Undef]
            ELSE S1
    IN  finally(catch(evalExpr(S0, S.watchers[w].expr)))

\* get whose finally block is skipped when the computation throws
getSkipsFinally(S, w) ==
    LET S0 == [pushTarget(Log(S, Ev("get", w, 0, Undef, Undef)), w) EXCEPT
                  !.hist[w].cur = {}]
        return(S3, value) ==
            [S3 EXCEPT !.ret = value,
                       !.hist[w].reads = S3.hist[w].cur,
                       !.hist[w].ever = @ \cup S3.hist[w].cur]
        finally(S1) ==
            return(cleanupDeps(popTarget(IF S1.watchers[w].deep
                                         THEN traverse(S1, S1.ret) ELSE S1),
                               w),
                   S1.ret)
        catch(S1) ==
            IF S1.watchers[w].user
            THEN [handleError(S1, Vm, Info("getter for watcher", w))
                     EXCEPT !.ret = Undef]
            ELSE [S1 EXCEPT !.ret = Undef]
        S2 == evalExpr(S0, S.watchers[w].expr)
    IN  IF S2.thrown THEN catch(S2) ELSE finally(S2)

\* get that does not traverse the value of a deep watcher
getNoTraverse(S, w) ==
    LET S0 == [pushTarget(Log(S, Ev("get", w, 0, Undef, Undef)), w) EXCEPT
                  !.hist[w].cur = {}]
        return(S3, value) ==
            [S3 EXCEPT !.ret = value,
                       !.hist[w].reads = S3.hist[w].cur,
                       !.hist[w].ever = @ \cup S3.hist[w].cur]
        finally(S1) == return(cleanupDeps(popTarget(S1), w), S1.ret)
    IN  finally(evalExpr(S0, S.watchers[w].expr))

get(S, w) ==
    LET S0 == [pushTarget(Log(S, Ev("get", w, 0, Undef, Undef)), w) EXCEPT
                  !.hist[w].cur = {}]
        return(S3, value) ==
            [S3 EXCEPT !.ret = value,
                       !.hist[w].reads = S3.hist[w].cur,
                       !.hist[w].ever = @ \cup S3.hist[w].cur]
        \* what traverse throws leaves the finally block at once
        rest(S1, T) ==
            IF T.thrown THEN T
            ELSE return(cleanupDeps(popTarget([T EXCEPT !.thrown = S1.thrown]),
                                    w),
                        S1.ret)
        finally(S1) ==
            rest(S1, IF S1.watchers[w].deep
                     THEN traverse([S1 EXCEPT !.thrown = FALSE], S1.ret)
                     ELSE [S1 EXCEPT !.thrown = FALSE])
        catch(S1) ==
            IF S1.thrown
            THEN IF S1.watchers[w].user
                 THEN [handleError(S1, Vm, Info("getter for watcher", w))
                          EXCEPT !.ret = Undef]
                 ELSE [S1 EXCEPT !.ret = Undef]
            ELSE S1
    IN  finally(catch(evalExpr(S0, S.watchers[w].expr)))

(***************************************************************************)
(* Array interception (observer/array.js).                                 *)
(***************************************************************************)
methodsToPatch ==
    {"push", "pop", "shift", "unshift", "splice", "sort", "reverse"}

\* the place of a value under the default sort order, which compares the
\* strings of the values and puts undefined last
\* ("0" < "1" < "NaN" < "[object Object]")
sortKey(v) ==
    CASE v.t = "num" -> v.v
      [] v.t = "nan" -> 10
      [] v.t = "undef" -> 12
      [] OTHER -> 11

RECURSIVE sorted(_)
sorted(s) ==
    IF s = << >> THEN << >>
    ELSE LET rest == sorted(Tail(s))
             n == Cardinality({i \in 1..Len(rest) :
                                 sortKey(rest[i]) < sortKey(Head(s))})
         IN  SubSeq(rest, 1, n) \o <<Head(s)>> \o SubSeq(rest, n + 1, Len(rest))

reversed(s) == [i \in 1..Len(s) |-> s[Len(s) + 1 - i]]

Min(a, b) == IF a < b THEN a ELSE b
Max(a, b) == IF a > b THEN a ELSE b

\* Array.prototype[method] applied to array a holding elems: the elements
\* it leaves and the value it returns
original(elems, a, method, args) ==
    CASE method = "push" ->
            [elems |-> elems \o args, result |-> Num(Len(elems) + Len(args))]
      [] method = "unshift" ->
            [elems |-> args \o elems, result |-> Num(Len(elems) + Len(args))]
      [] method = "pop" ->
            IF elems = << >> THEN [elems |-> elems, result |-> Undef]
            ELSE [elems |-> SubSeq(elems, 1, Len(elems) - 1),
                  result |-> elems[Len(elems)]]
      [] method = "shift" ->
            IF elems = << >> THEN [elems |-> elems, result |-> Undef]
            ELSE [elems |-> Tail(elems), result |-> Head(elems)]
      [] method = "splice" ->
            LET start == Min(args[1].v, Len(elems))
                count == Max(0, Min(args[2].v, Len(elems) - start))
            IN  [elems |-> SubSeq(elems, 1, start)
                              \o SubSeq(args, 3, Len(args))
                              \o SubSeq(elems, start + count + 1, Len(elems)),
                 result |-> List(SubSeq(elems, start + 1, start + count))]
      [] method = "sort" -> [elems |-> sorted(elems), result |-> Ref(a)]
      [] method = "reverse" -> [elems |-> reversed(elems), result |-> Ref(a)]

\* the arguments that are new elements
inserted(method, args) ==
    CASE method \in {"push", "unshift"} -> args
      [] method = "splice" -> SubSeq(args, 3, Len(args))
      [] OTHER -> << >>

\* a mutator that does not observe what it inserts
mutatorNoObserve(S, a, method, args) ==
    LET r == original(S.heap[a].elems, a, method, args)
    IN  [notify([S EXCEPT !.heap[a].elems = r.elems], S.heap[a].ob)
            EXCEPT !.ret = r.result]

\* a mutator that notifies before it changes the array
mutatorNotifyFirst(S, a, method, args) ==
    LET r == original(S.heap[a].elems, a, method, args)
        S1 == notify(S, S.heap[a].ob)
    IN  [observeArray([S1 EXCEPT !.heap[a].elems = r.elems],
                      inserted(method, args), 1)
            EXCEPT !.ret = r.result]

\* arrayMethods[method].apply(a, args), a an array with an Observer
mutator(S, a, method, args) ==
    LET r == original(S.heap[a].elems, a, method, args)
    IN  [notify(observeArray([S EXCEPT !.heap[a].elems = r.elems],
                             inserted(method, args), 1),
                S.heap[a].ob)
            EXCEPT !.ret = r.result]

\* a[method](...args): intercepted when a has an Observer
callMethod(S, a, method, args) ==
    IF S.heap[a].ob # 0 THEN mutator(S, a, method, args)
    ELSE LET r == original(S.heap[a].elems, a, method, args)
         IN  [S EXCEPT !.heap[a].elems = r.elems, !.ret = r.result]

(***************************************************************************)
(* set and del (observer/index.js).  The target is a value, the key a      *)
(* string or a number.                                                     *)
(***************************************************************************)
\* an assignment to length that leaves the array as it is
setLengthKeeps(S, a, n) == S

\* target.length = n, n >= target.length: the new places are empty
setLength(S, a, n) ==
    [S EXCEPT !.heap[a].elems =
        [i \in 1..n |-> IF i <= Len(@) THEN @[i] ELSE Undef]]

\* set that defines the new key and does not notify
setNoNotify(S, target, key, val) ==
    LET S0 == IF isUndef(target) \/ isPrimitive(target) THEN warn(S) ELSE S
        o == target.v
        return(S1) == [S1 EXCEPT !.ret = val]
    IN  IF isArray(S, target) /\ isValidArrayIndex(key)
        THEN return(callMethod(
                 setLength(S0, o, Max(Len(S.heap[o].elems), key.v)),
                 o, "splice", <<key, Num(1), val>>))
        ELSE IF ~isObject(target)
        THEN [S0 EXCEPT !.thrown = TRUE]
        ELSE IF hasOwn(S, o, key.v)
        THEN return(setProp(S0, o, key.v, val))
        ELSE IF S.heap[o].isVue \/ (S.heap[o].ob # 0 /\ S.heap[o].vmCount > 0)
        THEN return(warn(S0))
        ELSE IF S.heap[o].ob = 0
        THEN return(setProp(S0, o, key.v, val))
        ELSE return(defineReactive(S0, o, key.v, TRUE, val, FALSE))

set(S, target, key, val) ==
    LET S0 == IF isUndef(target) \/ isPrimitive(target) THEN warn(S) ELSE S
        o == target.v
        return(S1) == [S1 EXCEPT !.ret = val]
    IN  IF isArray(S, target) /\ isValidArrayIndex(key)
        THEN return(callMethod(
                 setLength(S0, o, Max(Len(S.heap[o].elems), key.v)),
                 o, "splice", <<key, Num(1), val>>))
        ELSE IF ~isObject(target)
        THEN \* key in target: a TypeError
             [S0 EXCEPT !.thrown = TRUE]
        ELSE IF hasOwn(S, o, key.v)
        THEN return(setProp(S0, o, key.v, val))
        ELSE IF S.heap[o].isVue \/ (S.heap[o].ob # 0 /\ S.heap[o].vmCount > 0)
        THEN return(warn(S0))
        ELSE IF S.heap[o].ob = 0
        THEN return(setProp(S0, o, key.v, val))
        ELSE return(notify(defineReactive(S0, o, key.v, TRUE, val, FALSE),
                           S.heap[o].ob))

\* del that does not refuse root data and component instances
delNoGuard(S, target, key) ==
    LET S0 == IF isUndef(target) \/ isPrimitive(target) THEN warn(S) ELSE S
        o == target.v
        return(S1) == [S1 EXCEPT !.ret = Undef]
    IN  IF isArray(S, target) /\ isValidArrayIndex(key)
        THEN return(callMethod(S0, o, "splice", <<key, Num(1)>>))
        ELSE IF isUndef(target)
        THEN [S0 EXCEPT !.thrown = TRUE]
        ELSE IF ~isObject(target)
        THEN return(S0)
        ELSE IF ~hasOwn(S, o, key.v)
        THEN return(S0)
        ELSE LET deleted ==
                     [S0 EXCEPT !.heap[o].keys = remove(@, key.v),
                                !.heap[o].prop[key.v] = Slot(Undef)]
             IN  IF S.heap[o].ob = 0 THEN return(deleted)
                 ELSE return(notify(deleted, S.heap[o].ob))

\* del that notifies before it deletes the key
delNotifiesFirst(S, target, key) ==
    LET S0 == IF isUndef(target) \/ isPrimitive(target) THEN warn(S) ELSE S
        o == target.v
        return(S1) == [S1 EXCEPT !.ret = Undef]
        delete(S1) ==
            [S1 EXCEPT !.heap[o].keys = remove(@, key.v),
                       !.heap[o].prop[key.v] = Slot(Undef)]
    IN  IF isArray(S, target) /\ isValidArrayIndex(key)
        THEN return(callMethod(S0, o, "splice", <<key, Num(1)>>))
        ELSE IF isUndef(target)
        THEN [S0 EXCEPT !.thrown = TRUE]
        ELSE IF ~isObject(target)
        THEN return(S0)
        ELSE IF S.heap[o].isVue \/ (S.heap[o].ob # 0 /\ S.heap[o].vmCount > 0)
        THEN return(warn(S0))
        ELSE IF ~hasOwn(S, o, key.v)
        THEN return(S0)
        ELSE IF S.heap[o].ob = 0 THEN return(delete(S0))
        ELSE return(delete(notify(S0, S.heap[o].ob)))

del(S, target, key) ==
    LET S0 == IF isUndef(target) \/ isPrimitive(target) THEN warn(S) ELSE S
        o == target.v
        return(S1) == [S1 EXCEPT !.ret = Undef]
    IN  IF isArray(S, target) /\ isValidArrayIndex(key)
        THEN return(callMethod(S0, o, "splice", <<key, Num(1)>>))
        ELSE IF isUndef(target)
        THEN \* target.__ob__: a TypeError
             [S0 EXCEPT !.thrown = TRUE]
        ELSE IF ~isObject(target)
        THEN \* a number has no __ob__, no _isVue and no own key
             return(S0)
        ELSE IF S.heap[o].isVue \/ (S.heap[o].ob # 0 /\ S.heap[o].vmCount > 0)
        THEN return(warn(S0))
        ELSE IF ~hasOwn(S, o, key.v)
        THEN return(S0)
        ELSE LET deleted ==
                     [S0 EXCEPT !.heap[o].keys = remove(@, key.v),
                                !.heap[o].prop[key.v] = Slot(Undef)]
             IN  IF S.heap[o].ob = 0 THEN return(deleted)
                 ELSE return(notify(deleted, S.heap[o].ob))

(***************************************************************************)
(* Scheduler, from spec.md 4.5: flushSchedulerQueue.                       *)
(***************************************************************************)
\* queue.sort((a, b) => a.id - b.id)
insertSorted(S, s, x) ==
    LET n == Cardinality({i \in 1..Len(s) :
                            S.watchers[s[i]].id <= S.watchers[x].id})
    IN  SubSeq(s, 1, n) \o <<x>> \o SubSeq(s, n + 1, Len(s))

RECURSIVE sortQueue(_, _)
sortQueue(S, q) ==
    IF q = << >> THEN << >>
    ELSE insertSorted(S, sortQueue(S, Tail(q)), Head(q))

resetSchedulerState(S) ==
    [S EXCEPT !.index = 0, !.queue = << >>, !.has = {}, !.circular = << >>,
              !.waiting = FALSE, !.flushing = FALSE]

\* a watcher that was enqueued again while it ran: count it, and past
\* MAX_UPDATE_COUNT warn and drop it from the rest of this pass
circularGuard(S, w) ==
    LET id == S.watchers[w].id
        n == IF id \in DOMAIN S.circular THEN S.circular[id] + 1 ELSE 1
        S1 == [S EXCEPT !.circular =
                  [i \in DOMAIN S.circular \cup {id} |->
                      IF i = id THEN n ELSE S.circular[i]]]
        at == S1.index + 1
    IN  IF n > MAX_UPDATE_COUNT
        THEN warn([S1 EXCEPT !.queue =
                      SubSeq(@, 1, at) \o remove(SubSeq(@, at + 1, Len(@)), w)])
        ELSE S1

\* the next n iterations of the loop over the queue, which reads the
\* length of the queue anew in each
RECURSIVE flushSteps(_, _)
flushSteps(S, n) ==
    IF n = 0 \/ S.index >= Len(S.queue) THEN S
    ELSE LET w == S.queue[S.index + 1]
             id == S.watchers[w].id
             guard(S1) ==
                 IF id \in S1.has THEN circularGuard(S1, w) ELSE S1
             next(S1) ==
                 IF S1.thrown THEN S1
                 ELSE flushSteps([guard(S1) EXCEPT !.index = @ + 1], n - 1)
         IN  next(run([S EXCEPT !.has = @ \ {id}], w))

\* the loop, evaluated ten iterations at a time
RECURSIVE flushLoop(_)
flushLoop(S) ==
    IF S.thrown \/ S.index >= Len(S.queue) THEN S
    ELSE flushLoop(flushSteps(S, 10))

\* log: the flush starts, with these watchers pending, in arrival order
RECURSIVE logPending(_, _)
logPending(S, i) ==
    IF i > Len(S.queue) THEN S
    ELSE logPending(Log(S, Ev("pending", S.queue[i], 0, Undef, Undef)), i + 1)

noteFlush(S) == logPending(Log(S, Ev("flush", 0, 0, Undef, Undef)), 1)

flushSchedulerQueue(S) ==
    LET S1 == [noteFlush(S) EXCEPT !.flushing = TRUE,
                                   !.queue = sortQueue(S, @), !.index = 0]
        finish(S2) == IF S2.thrown THEN S2 ELSE resetSchedulerState(S2)
    IN  finish(flushLoop(S1))

(***************************************************************************)
(* next-tick: flushCallbacks.                                              *)
(***************************************************************************)
\* the application calls nextTick(cb, ctx) with a new callback; by is the
\* callback whose invocation makes the call, 0 outside any
callNextTick(S, cb, ctx, by) ==
    nextTick([S EXCEPT !.issued =
                 Append(@, [ctx |-> ctx, by |-> by, cb |-> cb])],
             cb, ctx)

userNextTick(S, ctx, again, by) ==
    callNextTick(S, UserCb(Len(S.issued) + 1, again), ctx, by)

\* cb.call(ctx) without the try and catch
tryCallbackRethrows(S, c) ==
    LET called == [S EXCEPT !.invoked =
                      Append(@, [id |-> c.cb.id, this |-> c.ctx,
                                 how |-> "call"])]
    IN  CASE c.cb.fn = "flushSchedulerQueue" -> flushSchedulerQueue(S)
          [] c.cb.fn = "user" ->
                IF c.cb.again
                THEN userNextTick(called, c.ctx, FALSE, c.cb.id)
                ELSE [called EXCEPT !.thrown = c.cb.throws]

\* try { cb.call(ctx) } catch (e) { handleError(e, ctx, 'nextTick') }
tryCallback(S, c) ==
    LET caught(S1) ==
            IF S1.thrown THEN handleError(S1, c.ctx, Info("nextTick", 0))
            ELSE S1
        called == [S EXCEPT !.invoked =
                      Append(@, [id |-> c.cb.id, this |-> c.ctx,
                                 how |-> "call"])]
    IN  CASE c.cb.fn = "flushSchedulerQueue" ->
                caught(flushSchedulerQueue(S))
          [] c.cb.fn = "user" ->
                IF c.cb.again
                THEN caught(userNextTick(called, c.ctx, FALSE, c.cb.id))
                ELSE IF c.cb.throws
                     THEN caught([called EXCEPT !.thrown = TRUE])
                     ELSE called

\* copies[i](): the closure calls cb.call(ctx) when it has a cb, else
\* _resolve(ctx) when nextTick made a promise
invokeCallback(S, c) ==
    IF c.cb.fn # "undefined" THEN tryCallback(S, c)
    ELSE IF c._resolve # 0
         THEN [S EXCEPT !.invoked =
                  Append(@, [id |-> c._resolve, this |-> c.ctx,
                             how |-> "resolve"])]
         ELSE S

RECURSIVE copiesLoop(_, _, _)
copiesLoop(S, copies, i) ==
    IF i > Len(copies) \/ S.thrown THEN S
    ELSE copiesLoop(invokeCallback(S, copies[i]), copies, i + 1)

\* flushCallbacks that walks the live queue, and empties it at the end
RECURSIVE liveLoop(_, _)
liveLoop(S, i) ==
    IF i > Len(S.callbacks) THEN [S EXCEPT !.callbacks = << >>]
    ELSE liveLoop(invokeCallback(S, S.callbacks[i]), i + 1)

flushCallbacksLive(S) ==
    Log(liveLoop(Log([S EXCEPT !.pending = FALSE],
                     Ev("drain", 0, 0, Undef, Undef)), 1),
        Ev("drained", 0, 0, Undef, Undef))

\* flushCallbacks that leaves pending as it is
flushCallbacksKeepsPending(S) ==
    Log(copiesLoop(Log([S EXCEPT !.callbacks = << >>],
                       Ev("drain", 0, 0, Undef, Undef)),
                   S.callbacks, 1),
        Ev("drained", 0, 0, Undef, Undef))

flushCallbacks(S) ==
    Log(copiesLoop(Log([S EXCEPT !.pending = FALSE, !.callbacks = << >>],
                       Ev("drain", 0, 0, Undef, Undef)),
                   S.callbacks, 1),
        Ev("drained", 0, 0, Undef, Undef))

(***************************************************************************)
(* new Watcher(vm, expOrFn, cb, options)                                   *)
(***************************************************************************)
NoHist == [reads |-> {}, cur |-> {}, ever |-> {}]

\* ids handed out downwards
nextIdDown(S) == 0 - (S.uid + 1)

\* this.id = ++uid
nextId(S) == S.uid + 1

Watcher(S, expOrFn, cb, options) ==
    LET this == Len(S.watchers) + 1
        W == [expr |-> expOrFn, cb |-> cb,
              deep |-> options.deep, user |-> options.user,
              lazy |-> options.lazy, sync |-> options.sync,
              id |-> nextId(S),
              active |-> TRUE, dirty |-> options.lazy,
              deps |-> << >>, newDeps |-> << >>,
              depIds |-> {}, newDepIds |-> {}, value |-> Undef]
        S1 == [S EXCEPT !.vmWatchers = Append(@, this),
                        !.watchers = Append(@, W),
                        !.uid = @ + 1,
                        !.hist = Append(@, NoHist)]
        cache(S2) ==
            IF S2.thrown THEN S2
            ELSE [S2 EXCEPT !.watchers[this].value = S2.ret]
    IN  IF options.lazy THEN S1 ELSE cache(get(S1, this))

(***************************************************************************)
(* The initial state: initData has called observe(data, true) on           *)
(*   data = { a: 0, b: 0 }                                                 *)
(* and a second plain object { x: 0 } exists that nothing refers to yet.   *)
(***************************************************************************)
Obj(kind, keys, vals, elems) ==
    [kind |-> kind, ext |-> TRUE, frozen |-> FALSE, isVue |-> FALSE,
     ob |-> 0, vmCount |-> 0, keys |-> keys,
     prop |-> [k \in Keys |-> Slot(IF k \in DOMAIN vals THEN vals[k] ELSE Undef)],
     elems |-> elems]

RawState(h) ==
    [ heap |-> h, shouldObserve |-> TRUE, subs |-> << >>,
      watchers |-> << >>, uid |-> 0, vmWatchers |-> << >>,
      targetStack |-> << >>, seenObjects |-> {},
      queue |-> << >>, has |-> {}, circular |-> << >>,
      waiting |-> FALSE, flushing |-> FALSE, index |-> 0,
      callbacks |-> << >>, pending |-> FALSE, scheduled |-> 0,
      issued |-> << >>, invoked |-> << >>,
      warnings |-> 0, hist |-> << >>, events |-> << >>,
      ret |-> Undef, retOb |-> 0, thrown |-> FALSE, errors |-> << >> ]

DataHeap ==
    << Obj("record", <<"a", "b">>, [k \in {"a", "b"} |-> Num(0)], << >>),
       Obj("record", <<"x">>, [k \in {"x"} |-> Num(0)], << >>) >>

Start(S) ==
    /\ heap = S.heap
    /\ shouldObserve = S.shouldObserve
    /\ subs = S.subs
    /\ watchers = S.watchers
    /\ uid = S.uid
    /\ vmWatchers = S.vmWatchers
    /\ targetStack = S.targetStack
    /\ seenObjects = S.seenObjects
    /\ queue = S.queue
    /\ has = S.has
    /\ circular = S.circular
    /\ waiting = S.waiting
    /\ flushing = S.flushing
    /\ index = S.index
    /\ callbacks = S.callbacks
    /\ pending = S.pending
    /\ scheduled = S.scheduled
    /\ issued = S.issued
    /\ invoked = S.invoked
    /\ hist = S.hist

Init == Start(observe(RawState(DataHeap), Ref(1), TRUE))

(***************************************************************************)
(* The operations.  The values written, the computations and callbacks     *)
(* watched, and the options are drawn from small sets.                     *)
(***************************************************************************)
Path(k) == [op |-> "path", o |-> 1, k |-> k, l |-> 0]
Cond == [op |-> "cond", o |-> 1, k |-> "a", l |-> 0]
Computed(l) == [op |-> "computed", o |-> 1, k |-> "a", l |-> l]
NoCb == [op |-> "none", o |-> 1, k |-> "a", v |-> Undef]
WriteCb(k, v) == [op |-> "write", o |-> 1, k |-> k, v |-> v]
Opts(deep, lazy, sync) ==
    [deep |-> deep, user |-> FALSE, lazy |-> lazy, sync |-> sync]
Plain == Opts(FALSE, FALSE, FALSE)
Tmpl(expr, cb, options) == [expr |-> expr, cb |-> cb, options |-> options]

Bits == {Num(0), Num(1)}

\* vm[k] = v
Write(k, v) == Commit(setProp(State, 1, k, v))

NewWatcher(t, max) ==
    /\ Len(watchers) < max
    /\ Commit(Watcher(State, t.expr, t.cb, t.options))

\* new Watcher(vm, expOrFn, cb, options), once for each template
NewWatcherOnce(t) ==
    /\ \A w \in 1..Len(watchers) :
          \/ watchers[w].expr # t.expr
          \/ watchers[w].cb # t.cb
          \/ watchers[w].sync # t.options.sync
          \/ watchers[w].user # t.options.user
    /\ Commit(Watcher(State, t.expr, t.cb, t.options))

\* a watcher whose computation reads the computed property kept by the
\* lazy watcher l
NewComputedWatcher(l) ==
    /\ Len(watchers) < MaxFewWatchers
    /\ watchers[l].lazy
    /\ Commit(Watcher(State, Computed(l), NoCb, Plain))

\* the computed property of the lazy watcher w is read outside any watcher
ReadComputed(w) ==
    /\ watchers[w].lazy
    /\ Commit(computedGetter(State, w))

Teardown(w) == Commit(teardown(State, w, FALSE))

\* the platform runs a flushCallbacks it was handed
runTick(S) == flushCallbacks([S EXCEPT !.scheduled = @ - 1])

Tick ==
    /\ scheduled > 0
    /\ Commit(runTick(State))

(***************************************************************************)
(* Spec: queued watchers over the two fields of data, one of them with a   *)
(* callback that writes a field.                                           *)
(***************************************************************************)
Templates ==
    { Tmpl(Path("a"), NoCb, Plain),
      Tmpl(Path("b"), NoCb, Plain),
      Tmpl(Cond, NoCb, Plain),
      Tmpl(Path("a"), WriteCb("b", Num(1)), Plain) }

Next ==
    \/ \E k \in {"a", "b"}, v \in Bits : Write(k, v)
    \/ \E t \in Templates : NewWatcher(t, MaxFewWatchers)
    \/ Tick

Spec == Init /\ [][Next]_vars

(***************************************************************************)
(* SpecOrder: more watchers, so that a flush has several of them pending   *)
(* while a callback enqueues another.                                      *)
(***************************************************************************)
OrderTemplates ==
    { Tmpl(Path("a"), NoCb, Plain),
      Tmpl(Path("b"), NoCb, Plain),
      Tmpl(Path("a"), WriteCb("b", Num(1)), Plain) }

NextOrder ==
    \/ \E k \in {"a", "b"}, v \in Bits : Write(k, v)
    \/ \E t \in OrderTemplates : NewWatcher(t, MaxWatchers)
    \/ Tick

SpecOrder == Init /\ [][NextOrder]_vars

(***************************************************************************)
(* SpecTeardown: the same, with watchers torn down at any moment.          *)
(***************************************************************************)
TeardownTemplates ==
    { Tmpl(Path("a"), NoCb, Plain),
      Tmpl(Cond, NoCb, Plain),
      Tmpl(Path("b"), NoCb, Opts(FALSE, FALSE, TRUE)) }

NextTeardown ==
    \/ \E k \in {"a", "b"}, v \in Bits : Write(k, v)
    \/ \E t \in TeardownTemplates : NewWatcher(t, MaxFewWatchers)
    \/ \E w \in 1..Len(watchers) : Teardown(w)
    \/ Tick

SpecTeardown == Init /\ [][NextTeardown]_vars

(***************************************************************************)
(* SpecValues: field a takes a number, NaN or an object; it is watched     *)
(* plainly, deeply and synchronously.                                      *)
(***************************************************************************)
Values == {Num(0), NaN, Ref(2)}

ValueTemplates ==
    { Tmpl(Path("a"), NoCb, Plain),
      Tmpl(Path("a"), NoCb, Opts(TRUE, FALSE, FALSE)),
      Tmpl(Path("a"), NoCb, Opts(FALSE, FALSE, TRUE)) }

NextValues ==
    \/ \E v \in Values : Write("a", v)
    \/ \E t \in ValueTemplates : NewWatcher(t, MaxWatchers)
    \/ Tick

SpecValues == Init /\ [][NextValues]_vars

(***************************************************************************)
(* SpecLazy: lazy watchers (computed properties), read by other watchers   *)
(* and from outside.                                                       *)
(***************************************************************************)
Lazy == Opts(FALSE, TRUE, FALSE)

LazyTemplates ==
    { Tmpl(Path("b"), NoCb, Lazy),
      Tmpl(Cond, NoCb, Lazy) }

NextLazy ==
    \/ \E k \in {"a", "b"}, v \in Bits : Write(k, v)
    \/ \E t \in LazyTemplates : NewWatcher(t, MaxFewWatchers)
    \/ \E l \in 1..Len(watchers) : NewComputedWatcher(l)
    \/ \E w \in 1..Len(watchers) : ReadComputed(w)
    \/ Tick

SpecLazy == Init /\ [][NextLazy]_vars

(***************************************************************************)
(* Reading the log of a handler.                                           *)
(***************************************************************************)
\* the positions of log ev that hold an event of kind e of watcher w
Where(ev, e, w) == {i \in 1..Len(ev) : ev[i].e = e /\ ev[i].w = w}

Count(ev, e, w) == Cardinality(Where(ev, e, w))

\* the first position after p that holds an event e of watcher w, 0 if none
NextAt(ev, e, w, p) ==
    LET at == {i \in Where(ev, e, w) : i > p}
    IN  IF at = {} THEN 0 ELSE CHOOSE i \in at : \A j \in at : i <= j

Occurrences(s, x) == Cardinality({i \in 1..Len(s) : s[i] = x})

\* a handler applied with an empty log
Fresh(S) == [S EXCEPT !.events = << >>]

\* a watcher that update() hands to the scheduler
Queued(S, w) ==
    S.watchers[w].active /\ ~S.watchers[w].lazy /\ ~S.watchers[w].sync

Fields == {"a", "b"}

\* the other bit: a write of it changes the value of the field
Flip(v) == IF v = Num(0) THEN Num(1) ELSE Num(0)

\* n writes to field k of data, each of a value other than the current one
RECURSIVE WriteN(_, _, _)
WriteN(S, k, n) ==
    IF n = 0 THEN S
    ELSE WriteN(setProp(S, 1, k, Flip(ownValue(S, 1, k))), k, n - 1)

\* n calls of update() on watcher w
RECURSIVE UpdateN(_, _, _)
UpdateN(S, w, n) == IF n = 0 THEN S ELSE UpdateN(update(S, w), w, n - 1)

\* the number of writes, and of update() calls, made before a flush
MaxWrites == 3

(***************************************************************************)
(* C1  Dependency completeness.  Let C be an active watcher that is        *)
(* neither lazy nor sync and whose most recent evaluation read field k.    *)
(* After n >= 1 writes to k, each of a value different from the current    *)
(* one, C is pending exactly once and one flush is scheduled; the next     *)
(* flush evaluates C once for these writes: once, plus once for every      *)
(* time a write made during the flush itself enqueues C again.             *)
(***************************************************************************)
DependencyCompleteness ==
    \A C \in 1..Len(watchers), k \in Fields, n \in 1..MaxWrites :
        (Queued(State, C) /\ <<1, k>> \in hist[C].reads) =>
            LET S1 == WriteN(State, k, n)
                S2 == runTick(Fresh(S1))
            IN  /\ S1.scheduled = 1
                /\ Occurrences(S1.queue, C) = 1
                /\ watchers[C].id \in S1.has
                /\ Count(S2.events, "flush", 0) = 1
                /\ Count(S2.events, "get", C)
                      = 1 + Count(S2.events, "queue", C)
                /\ S2.queue = << >> /\ S2.has = {}

\* two watchers exist, nothing is pending, and field b, read by one of
\* them, is written twice: the flush evaluates that watcher once
DependencyCompletenessWitness ==
    /\ Len(watchers) >= 2
    /\ has = {}
    /\ \E C \in 1..Len(watchers) :
          /\ Queued(State, C)
          /\ hist[C].reads = {<<1, "b">>}
          /\ Count(runTick(Fresh(WriteN(State, "b", 2))).events, "get", C) = 1

(***************************************************************************)
(* C2  Stale dependency pruning.  If an earlier evaluation of watcher C    *)
(* read field k and its most recent evaluation did not, C is not in the    *)
(* subscriber list of k's dep, and a write to k does not call C.update()   *)
(* and leaves C and its place in the queue as they were.                   *)
(***************************************************************************)
StalePruning ==
    \A C \in 1..Len(watchers), k \in Fields :
        (<<1, k>> \in hist[C].ever \ hist[C].reads) =>
            LET d == heap[1].prop[k].dep
                S1 == setProp(State, 1, k, Flip(ownValue(State, 1, k)))
            IN  /\ Occurrences(subs[d], C) = 0
                /\ d \notin watchers[C].depIds
                /\ Count(S1.events, "update", C) = 0
                /\ S1.watchers[C] = watchers[C]
                /\ Occurrences(S1.queue, C) = Occurrences(queue, C)

\* a watcher read b earlier and no longer does, while another watcher is
\* subscribed to b and is updated by the write
StalePruningWitness ==
    \E C \in 1..Len(watchers), D \in 1..Len(watchers) :
        /\ <<1, "b">> \in hist[C].ever \ hist[C].reads
        /\ Count(setProp(State, 1, "b", Flip(ownValue(State, 1, "b"))).events,
                 "update", D) = 1

(***************************************************************************)
(* C3  Deduplication.  For a watcher w that is neither lazy nor sync, n    *)
(* calls of w.update() before a flush leave w in the queue once and one    *)
(* flush scheduled, whatever n; that flush calls w.run() once for them:    *)
(* once, plus once for every time w is enqueued again during the flush.    *)
(***************************************************************************)
Deduplication ==
    \A w \in 1..Len(watchers), n \in 1..MaxWrites :
        Queued(State, w) =>
            LET S1 == UpdateN(State, w, n)
                S2 == runTick(Fresh(S1))
            IN  /\ Occurrences(S1.queue, w) = 1
                /\ Occurrences(S1.callbacks, Closure(FlushCb, Undef)) = 1
                /\ S1.scheduled = 1
                /\ Count(S2.events, "flush", 0) = 1
                /\ Count(S2.events, "run", w)
                      = 1 + Count(S2.events, "queue", w)
                /\ S2.scheduled = 0 /\ S2.callbacks = << >>

\* nothing is pending; three update() calls on one watcher: one flush,
\* which runs it once
DeduplicationWitness ==
    /\ has = {} /\ scheduled = 0
    /\ \E w \in 1..Len(watchers) :
          /\ Queued(State, w)
          /\ LET S1 == UpdateN(State, w, 3)
             IN  /\ Count(S1.events, "update", w) = 3
                 /\ Count(S1.events, "nextTick", 0) = 1
                 /\ Count(runTick(Fresh(S1)).events, "run", w) = 1

(***************************************************************************)
(* C4  Flush ordering.  Watcher ids grow in the order of construction, and *)
(* the watchers pending when a flush starts are run by it in ascending id  *)
(* order, that is in the order of their construction, whatever the order   *)
(* in which they were enqueued.                                            *)
(***************************************************************************)
FlushOrdering ==
    /\ \A x, y \in 1..Len(watchers) :
          x < y => watchers[x].id < watchers[y].id
    /\ scheduled > 0 =>
          LET ev == runTick(State).events
          IN  \A i, j \in 1..Len(queue) :
                  queue[i] < queue[j] =>
                      /\ NextAt(ev, "run", queue[i], 0) # 0
                      /\ NextAt(ev, "run", queue[i], 0)
                            < NextAt(ev, "run", queue[j], 0)

\* three watchers are pending, the latest constructed enqueued first
FlushOrderingWitness ==
    /\ scheduled > 0
    /\ Len(queue) = 3
    /\ queue[1] > queue[2] /\ queue[1] > queue[3]
    /\ Count(runTick(State).events, "run", queue[1]) = 1

(***************************************************************************)
(* C5  Mid-flush insertion.  When, while a flush is running, update() is   *)
(* called on a watcher D (neither lazy nor sync) that is not pending, D is *)
(* enqueued and is run later in the same flush; if the id of D is greater  *)
(* than the id of every watcher still pending at that moment, D runs       *)
(* after all of them.                                                      *)
(***************************************************************************)
\* the watchers pending just before position p of the log of a flush
PendingAt(ev, p) ==
    {x \in 1..Len(watchers) :
        Cardinality({i \in Where(ev, "pending", x) \cup Where(ev, "queue", x) :
                        i < p})
            > Cardinality({i \in Where(ev, "run", x) : i < p})}

MidFlushInsertion ==
    scheduled > 0 =>
        LET S2 == runTick(State)
            ev == S2.events
        IN  \A p \in 1..Len(ev) :
                LET D == ev[p].w
                    P == PendingAt(ev, p)
                IN  (ev[p].e = "update" /\ Queued(State, D) /\ D \notin P) =>
                        /\ p < Len(ev)
                        /\ ev[p + 1].e = "queue" /\ ev[p + 1].w = D
                        /\ NextAt(ev, "run", D, p) # 0
                        /\ D \notin PendingAt(ev, Len(ev) + 1)
                        /\ (\A x \in P : watchers[x].id < watchers[D].id) =>
                              \A x \in P :
                                  /\ NextAt(ev, "run", x, p) # 0
                                  /\ NextAt(ev, "run", x, p)
                                        < NextAt(ev, "run", D, p)

\* the callback of the first watcher run enqueues the watcher with the
\* greatest id while another watcher is still pending
MidFlushInsertionWitness ==
    /\ scheduled > 0
    /\ LET ev == runTick(State).events
       IN  \E p \in 1..Len(ev) :
               /\ ev[p].e = "queue"
               /\ PendingAt(ev, p) # {}
               /\ \A x \in PendingAt(ev, p) :
                     watchers[x].id < watchers[ev[p].w].id

(***************************************************************************)
(* C6  Teardown.  teardown() of a watcher W leaves W inactive and in the   *)
(* subscriber list of no dep; and while W is inactive it is in no          *)
(* subscriber list, no write to a field calls its update(), evaluates its  *)
(* computation or invokes its callback, and a flush in which it is still   *)
(* pending neither evaluates it nor invokes its callback.                  *)
(***************************************************************************)
TeardownDetaches ==
    \A W \in 1..Len(watchers) :
        /\ \A b \in BOOLEAN :
              LET S1 == teardown(State, W, b)
              IN  /\ ~S1.watchers[W].active
                  /\ \A d \in 1..Len(subs) : Occurrences(S1.subs[d], W) = 0
        /\ ~watchers[W].active =>
              /\ \A d \in 1..Len(subs) : Occurrences(subs[d], W) = 0
              /\ \A k \in Fields, v \in Bits :
                    LET ev == setProp(State, 1, k, v).events
                    IN  /\ Count(ev, "update", W) = 0
                        /\ Count(ev, "get", W) = 0
                        /\ Count(ev, "cb", W) = 0
              /\ scheduled > 0 =>
                    LET ev == runTick(State).events
                    IN  Count(ev, "get", W) = 0 /\ Count(ev, "cb", W) = 0

\* a watcher that read a field was enqueued by a write and then torn down;
\* the flush reaches it and does not evaluate it, and a further write to
\* the field updates another watcher only
TeardownDetachesWitness ==
    \E W \in 1..Len(watchers), D \in 1..Len(watchers) :
        /\ ~watchers[W].active
        /\ hist[W].reads = {<<1, "a">>}
        /\ Occurrences(queue, W) = 1
        /\ scheduled > 0
        /\ LET ev == runTick(State).events
           IN  Count(ev, "run", W) = 1 /\ Count(ev, "get", W) = 0
        /\ Count(setProp(State, 1, "a", Flip(ownValue(State, 1, "a"))).events,
                 "update", D) = 1

(***************************************************************************)
(* C7  Lazy state machine.  Constructing a lazy watcher does not evaluate  *)
(* its computation: its value is undefined, it is dirty and subscribed to  *)
(* nothing.  update() on a lazy watcher sets dirty and does nothing else.  *)
(* evaluate() evaluates the computation once, caches its value and clears  *)
(* dirty.                                                                  *)
(***************************************************************************)
\* the value of computation e over the fields of data as they are
RECURSIVE ValueOf(_, _)
ValueOf(S, e) ==
    CASE e.op = "path" -> ownValue(S, e.o, e.k)
      [] e.op = "cond" -> IF ownValue(S, e.o, "a") = Num(1)
                          THEN ownValue(S, e.o, "b")
                          ELSE ownValue(S, e.o, "a")
      [] e.op = "unless" -> IF ownValue(S, e.o, "b") = Num(1)
                            THEN ownValue(S, e.o, "b")
                            ELSE ownValue(S, e.o, "a")
      [] e.op = "computed" -> ValueOf(S, S.watchers[e.l].expr)
      [] e.op = "after" -> ownValue(S, e.o, e.k)
      [] e.op = "nested" ->
            IF isObject(ownValue(S, e.o, "a"))
            THEN ownValue(S, ownValue(S, e.o, "a").v, e.k)
            ELSE Undef
      [] e.op = "length" ->
            IF isArray(S, ownValue(S, e.o, e.k))
            THEN Num(Len(S.heap[ownValue(S, e.o, e.k).v].elems))
            ELSE Undef
      [] e.op = "elem" ->
            LET a == ownValue(S, e.o, e.k)
            IN  IF isArray(S, a) /\ S.heap[a.v].elems # << >>
                   /\ isObject(S.heap[a.v].elems[1])
                THEN ownValue(S, S.heap[a.v].elems[1].v, "x")
                ELSE Undef
      [] e.op = "throwing" ->
            IF ownValue(S, e.o, e.k) = Num(1) THEN Undef
            ELSE ownValue(S, e.o, "b")

LazyStateMachine ==
    /\ \A e \in {Path("a"), Path("b"), Cond} :
          LET S1 == Watcher(State, e, NoCb, Lazy)
              L == Len(S1.watchers)
          IN  /\ L = Len(watchers) + 1
              /\ S1.events = << >>
              /\ S1.watchers[L].value = Undef
              /\ S1.watchers[L].dirty
              /\ S1.subs = subs
    /\ \A L \in 1..Len(watchers) :
          watchers[L].lazy =>
              /\ update(State, L)
                    = [Log(State, Ev("update", L, 0, Undef, Undef)) EXCEPT
                          !.watchers[L].dirty = TRUE]
              /\ LET S2 == evaluate(State, L)
                 IN  /\ S2.events = << Ev("get", L, 0, Undef, Undef) >>
                     /\ S2.watchers[L].value = ValueOf(State, watchers[L].expr)
                     /\ ~S2.watchers[L].dirty
                     /\ S2.queue = queue /\ S2.callbacks = callbacks

\* a lazy watcher was evaluated, a write made it dirty again, and
\* evaluating it now caches another value
LazyStateMachineWitness ==
    \E L \in 1..Len(watchers) :
        /\ watchers[L].lazy /\ watchers[L].dirty
        /\ hist[L].reads # {}
        /\ watchers[L].value = Num(0)
        /\ evaluate(State, L).watchers[L].value = Num(1)
        /\ queue = << >>

(***************************************************************************)
(* C8  Lazy dependency propagation.  Let R be an active watcher whose      *)
(* computation reads the computed property of the lazy watcher L, so that  *)
(* L.depend() is called while R is the active reader.  When an evaluation  *)
(* of R ends, L is evaluated and has deps, R is in the subscriber list of  *)
(* every dep of L, once, and a value-changing write to any field whose dep *)
(* is among them calls R.update().                                         *)
(***************************************************************************)
LazyDependencyPropagation ==
    \A R \in 1..Len(watchers) :
        (watchers[R].active /\ watchers[R].expr.op = "computed") =>
            LET L == watchers[R].expr.l
                S1 == Fresh(get(State, R))
                deps == S1.watchers[L].deps
            IN  /\ ~S1.watchers[L].dirty
                /\ deps # << >>
                /\ \A i \in 1..Len(deps) :
                      /\ Occurrences(S1.subs[deps[i]], R) = 1
                      /\ deps[i] \in S1.watchers[R].depIds
                /\ \A k \in Fields :
                      (\E i \in 1..Len(deps) : deps[i] = heap[1].prop[k].dep) =>
                          Count(setProp(S1, 1, k,
                                        Flip(ownValue(S1, 1, k))).events,
                                "update", R) = 1

\* the lazy watcher reads both fields; the watcher reading it is updated
\* by a write to the second of them
LazyDependencyPropagationWitness ==
    \E R \in 1..Len(watchers) :
        /\ watchers[R].expr.op = "computed"
        /\ Len(watchers[watchers[R].expr.l].deps) = 2
        /\ ~watchers[watchers[R].expr.l].dirty
        /\ hist[R].reads = {}
        /\ Count(setProp(State, 1, "b", Flip(ownValue(State, 1, "b"))).events,
                 "update", R) = 1

(***************************************************************************)
(* C9  Callback gating.  run() on an active watcher evaluates the          *)
(* computation once; it invokes the callback with (newValue, oldValue)     *)
(* and caches newValue if and only if newValue differs from the cached     *)
(* value, or newValue is an object, or the watcher is deep; otherwise it   *)
(* invokes no callback and leaves the cached value as it was.              *)
(***************************************************************************)
\* what run() of watcher w does, given whether the new value counts as
\* different from the cached one
RunGatedBy(w, differs) ==
    LET S1 == run(State, w)
        newValue == get(State, w).ret
        oldValue == watchers[w].value
        fires == differs \/ isObject(newValue) \/ watchers[w].deep
    IN  /\ Count(S1.events, "get", w) = 1
        /\ fires =>
              /\ Where(S1.events, "cb", w) # {}
              /\ \A i \in Where(S1.events, "cb", w) :
                    S1.events[i].a = newValue /\ S1.events[i].b = oldValue
              /\ Count(S1.events, "cb", w) = 1
              /\ S1.watchers[w].value = newValue
        /\ ~fires =>
              /\ Count(S1.events, "cb", w) = 0
              /\ S1.watchers[w].value = oldValue

CallbackGating ==
    \A w \in 1..Len(watchers) :
        (watchers[w].active /\ ~watchers[w].lazy) =>
            RunGatedBy(w, get(State, w).ret # watchers[w].value)

\* What run() does: the values are compared with !==, under which NaN
\* differs from NaN.
CallbackGatingStrict ==
    \A w \in 1..Len(watchers) :
        (watchers[w].active /\ ~watchers[w].lazy) =>
            RunGatedBy(w, ~StrictEq(get(State, w).ret, watchers[w].value))

(***************************************************************************)
(* C10  Writing to a reactive field the value it holds (the same number,   *)
(* the same object, or NaN over NaN) changes nothing: the stored value and *)
(* the nested observer stay, the dep does not notify, no watcher is        *)
(* updated, run or enqueued.                                               *)
(***************************************************************************)
SameValueWriteIsNoOp ==
    \A v \in Values \cup Bits :
        v = ownValue(State, 1, "a") =>
            LET S1 == setProp(State, 1, "a", v)
            IN  /\ S1.heap = heap
                /\ S1.events = << >>
                /\ S1.watchers = watchers
                /\ S1.queue = queue /\ S1.callbacks = callbacks
                /\ S1 = State

\* the field holds NaN and a sync watcher and a queued watcher, neither
\* of them pending, are subscribed to its dep
SameValueWriteIsNoOpWitness ==
    /\ ownValue(State, 1, "a") = NaN
    /\ queue = << >>
    /\ \E w, x \in 1..Len(watchers) :
          /\ watchers[w].sync /\ ~watchers[x].sync
          /\ Occurrences(subs[heap[1].prop["a"].dep], w) = 1
          /\ Occurrences(subs[heap[1].prop["a"].dep], x) = 1

(***************************************************************************)
(* SpecDeep: data = { a: { x: 0 }, b: [] } is watched deeply and plainly   *)
(* while the nested record and the array are changed in place; a second    *)
(* record { x: 0 } is pushed into the array.                               *)
(***************************************************************************)
\* the longest array of SpecDeep and SpecArray
MaxLen == 2

NestedHeap ==
    << Obj("record", <<"a", "b">>,
           [k \in {"a", "b"} |-> IF k = "a" THEN Ref(2) ELSE Ref(3)], << >>),
       Obj("record", <<"x">>, [k \in {"x"} |-> Num(0)], << >>),
       Obj("array", << >>, << >>, << >>),
       Obj("record", <<"x">>, [k \in {"x"} |-> Num(0)], << >>) >>

InitNested == Start(observe(RawState(NestedHeap), Ref(1), TRUE))

\* o[k] = v
WriteAt(o, k, v) == Commit(setProp(State, o, k, v))

\* a[method](...args)
ArrayCall(a, method, args) ==
    /\ Len(heap[a].elems) + Len(inserted(method, args)) <= MaxLen
    /\ Commit(callMethod(State, a, method, args))

Deep == Opts(TRUE, FALSE, FALSE)

DeepTemplates ==
    { Tmpl(Path("a"), NoCb, Deep),
      Tmpl(Path("b"), NoCb, Deep),
      Tmpl(Path("b"), NoCb, Plain) }

NextDeep ==
    \/ \E o \in {2, 4}, v \in Bits : WriteAt(o, "x", v)
    \/ \E v \in {Ref(4), Num(1)} : ArrayCall(3, "push", <<v>>)
    \/ ArrayCall(3, "pop", << >>)
    \/ \E t \in DeepTemplates : NewWatcher(t, MaxFewWatchers)
    \/ Tick

SpecDeep == InitNested /\ [][NextDeep]_vars

\* the containers a value refers to
Children(S, c) ==
    {x.v : x \in {y \in {ownValue(S, c, k) : k \in Keys}
                          \cup {S.heap[c].elems[i] :
                                    i \in 1..Len(S.heap[c].elems)} :
                     isObject(y)}}

RECURSIVE ReachFrom(_, _)
ReachFrom(S, C) ==
    LET N == C \cup UNION {Children(S, c) : c \in C}
    IN  IF N = C THEN C ELSE ReachFrom(S, N)

\* the containers reachable from value v
Reachable(S, v) == IF isObject(v) THEN ReachFrom(S, {v.v}) ELSE {}

\* watcher w is a subscriber of the dep of every Observer and of every
\* reactive field reachable from value v
SubscribedBelow(S, w, v) ==
    \A c \in Reachable(S, v) :
        /\ S.heap[c].ob # 0 => Occurrences(S.subs[S.heap[c].ob], w) = 1
        /\ \A k \in Keys :
              (hasOwn(S, c, k) /\ S.heap[c].prop[k].dep # 0) =>
                  Occurrences(S.subs[S.heap[c].prop[k].dep], w) = 1

\* the changes made in place below value v: a push onto a reachable array,
\* a write of another value to a field of a reachable record
MutationsBelow(S, v) ==
    {[op |-> "push", c |-> c, k |-> "x"] :
         c \in {d \in Reachable(S, v) : S.heap[d].kind = "array"}}
    \cup {[op |-> "write", c |-> c, k |-> k] :
             c \in {d \in Reachable(S, v) : S.heap[d].kind = "record"},
             k \in {"x"}}

Mutate(S, m) ==
    IF m.op = "push" THEN callMethod(S, m.c, "push", <<Num(1)>>)
    ELSE setProp(S, m.c, m.k, Flip(ownValue(S, m.c, m.k)))

(***************************************************************************)
(* C11  The evaluation of a deep watcher leaves it subscribed to the dep   *)
(* of every reactive field and of every Observer reachable from its value, *)
(* and it stays so while it is not pending.  A change made in place below  *)
(* the value (a push onto a nested array, a write to a nested field) then  *)
(* schedules it, and the next flush runs it and invokes its callback with  *)
(* the same top-level reference as new and old value.                      *)
(***************************************************************************)
DeepTracking ==
    \A w \in 1..Len(watchers) :
        (watchers[w].deep /\ watchers[w].active) =>
            /\ LET S1 == get(State, w)
               IN  SubscribedBelow(S1, w, S1.ret)
            /\ watchers[w].id \notin has =>
                  /\ SubscribedBelow(State, w, watchers[w].value)
                  /\ \A m \in MutationsBelow(State, watchers[w].value) :
                        LET S2 == Mutate(State, m)
                            S3 == runTick(S2)
                        IN  /\ watchers[w].id \in S2.has
                            /\ S2.scheduled > 0
                            /\ \E i \in Where(S3.events, "cb", w) :
                                  /\ S3.events[i].a = watchers[w].value
                                  /\ S3.events[i].b = watchers[w].value
                            /\ S3.watchers[w].value = watchers[w].value

\* a deep watcher of data.b was evaluated after the second record was
\* pushed into the array; a write to the field of that record makes the
\* next flush invoke its callback with the array as new and old value
DeepTrackingWitness ==
    \E w \in 1..Len(watchers) :
        /\ watchers[w].deep /\ watchers[w].active
        /\ watchers[w].value = Ref(3)
        /\ watchers[w].id \notin has
        /\ 4 \in Reachable(State, Ref(3))
        /\ Occurrences(subs[heap[4].prop["x"].dep], w) = 1
        /\ LET S3 == runTick(setProp(State, 4, "x", Flip(ownValue(State, 4, "x"))))
           IN  \E i \in Where(S3.events, "cb", w) :
                   S3.events[i].a = Ref(3) /\ S3.events[i].b = Ref(3)

(***************************************************************************)
(* SpecArray: the array data.b of the same data is changed through the     *)
(* seven intercepted methods and through set; its length and the field of  *)
(* its first element are watched, synchronously and through the queue.     *)
(***************************************************************************)
Length(k) == [op |-> "length", o |-> 1, k |-> k, l |-> 0]
Elem(k) == [op |-> "elem", o |-> 1, k |-> k, l |-> 0]
Sync == Opts(FALSE, FALSE, TRUE)

\* the elements inserted
Items == {Ref(4), Num(1)}

\* the argument lists of the intercepted methods
Args(method) ==
    CASE method \in {"push", "unshift"} -> {<<v>> : v \in Items}
      [] method = "splice" ->
            {<<Num(0), Num(1), v>> : v \in Items} \cup {<<Num(1), Num(1)>>}
      [] OTHER -> {<< >>}

ArrayTemplates ==
    { Tmpl(Length("b"), NoCb, Sync),
      Tmpl(Elem("b"), NoCb, Sync),
      Tmpl(Elem("b"), NoCb, Plain) }

\* set(a, i, v)
SetIndex(a, i, v) == Commit(set(State, Ref(a), Num(i), v))

NextArray ==
    \/ \E method \in methodsToPatch :
          \E args \in Args(method) : ArrayCall(3, method, args)
    \/ \E i \in 0..(MaxLen - 1), v \in Items : SetIndex(3, i, v)
    \/ \E v \in Bits : WriteAt(4, "x", v)
    \/ \E t \in ArrayTemplates : NewWatcherOnce(t)
    \/ Tick

SpecArray == InitNested /\ [][NextArray]_vars

\* the positions of log ev at which dep d notifies
NotifiesOf(ev, d) == {i \in 1..Len(ev) : ev[i].e = "notify" /\ ev[i].d = d}

(***************************************************************************)
(* C12  Each of the seven intercepted methods changes the array as the     *)
(* method of Array.prototype does and returns what that returns; the dep   *)
(* of the array's Observer notifies exactly once; a watcher updated by     *)
(* that notification evaluates against the array after the change: a       *)
(* synchronous subscriber has run inside the call and cached the value its *)
(* computation has on the changed array.                                   *)
(***************************************************************************)
InterceptedMutation ==
    \A method \in methodsToPatch :
        \A args \in Args(method) :
            LET r == original(heap[3].elems, 3, method, args)
                S1 == mutator(State, 3, method, args)
                d == heap[3].ob
            IN  /\ S1.heap[3].elems = r.elems
                /\ S1.ret = r.result
                /\ Cardinality(NotifiesOf(S1.events, d)) = 1
                /\ \A w \in 1..Len(watchers) :
                      Occurrences(subs[d], w) = 1 =>
                          LET n == CHOOSE i \in NotifiesOf(S1.events, d) : TRUE
                          IN  /\ NextAt(S1.events, "update", w, n) # 0
                              /\ watchers[w].sync =>
                                    /\ NextAt(S1.events, "get", w, n) # 0
                                    /\ S1.watchers[w].value
                                          = ValueOf(S1, watchers[w].expr)

\* a synchronous watcher of the length is subscribed to the array's dep
\* and a push changes the length it cached
InterceptedMutationWitness ==
    \E w \in 1..Len(watchers) :
        /\ watchers[w].sync /\ watchers[w].active
        /\ watchers[w].expr = Length("b")
        /\ Occurrences(subs[heap[3].ob], w) = 1
        /\ heap[3].elems # << >>
        /\ LET S1 == mutator(State, 3, "push", <<Num(1)>>)
           IN  /\ S1.watchers[w].value = Num(Len(heap[3].elems) + 1)
               /\ S1.watchers[w].value # watchers[w].value
               /\ S1.ret = Num(Len(heap[3].elems) + 1)

\* observe() wraps the value: a plain object or an array that is
\* extensible and no component instance
Eligible(S, v) ==
    /\ isObject(v)
    /\ isArray(S, v) \/ isPlainObject(S, v)
    /\ S.heap[v.v].ext
    /\ ~S.heap[v.v].isVue

\* container c has an Observer and each of its own fields is reactive
Wrapped(S, c) ==
    /\ S.heap[c].ob # 0
    /\ \A k \in Keys : hasOwn(S, c, k) => S.heap[c].prop[k].dep # 0

\* the watchers whose last evaluation read field k of container c
ReadersOf(S, c, k) ==
    {w \in 1..Len(S.watchers) :
        S.watchers[w].active /\ <<c, k>> \in S.hist[w].reads}

(***************************************************************************)
(* C13  push, unshift and splice wrap every eligible record or array they  *)
(* insert (for splice, the arguments after the first two) before the       *)
(* array's dep notifies: a synchronous watcher of the first element's      *)
(* field, run by that notification, has read the field of the inserted     *)
(* record through its reactive getter and is subscribed to its dep.  A     *)
(* later write to a field of an inserted record updates every watcher      *)
(* whose evaluation read that field through the element.                   *)
(***************************************************************************)
ArrayPromotion ==
    /\ \A method \in {"push", "unshift", "splice"} :
          \A args \in Args(method) :
              LET S1 == mutator(State, 3, method, args)
                  items == inserted(method, args)
              IN  /\ \A i \in 1..Len(items) :
                        Eligible(State, items[i]) => Wrapped(S1, items[i].v)
                  /\ \A w \in 1..Len(watchers) :
                        ( /\ watchers[w].sync
                          /\ watchers[w].expr = Elem("b")
                          /\ Occurrences(subs[heap[3].ob], w) = 1
                          /\ S1.heap[3].elems # << >>
                          /\ Eligible(S1, S1.heap[3].elems[1]) ) =>
                            LET c == S1.heap[3].elems[1].v
                            IN  /\ w \in ReadersOf(S1, c, "x")
                                /\ Occurrences(
                                       S1.subs[S1.heap[c].prop["x"].dep], w) = 1
                  /\ \A i \in 1..Len(items) :
                        Eligible(State, items[i]) =>
                            \A w \in ReadersOf(S1, items[i].v, "x") :
                                LET S2 == setProp(Fresh(S1), items[i].v, "x",
                                                  Flip(ownValue(S1, items[i].v, "x")))
                                IN  Count(S2.events, "update", w) = 1
    /\ \A i \in 1..Len(heap[3].elems) :
          Eligible(State, heap[3].elems[i]) =>
              LET c == heap[3].elems[i].v
              IN  /\ Wrapped(State, c)
                  /\ \A w \in ReadersOf(State, c, "x") :
                        Count(setProp(State, c, "x",
                                      Flip(ownValue(State, c, "x"))).events,
                              "update", w) = 1

\* the record was inserted into the array and a watcher read its field
\* through the element; a write to the field updates the watcher
ArrayPromotionWitness ==
    /\ heap[3].elems # << >>
    /\ heap[3].elems[1] = Ref(4)
    /\ Wrapped(State, 4)
    /\ \E w \in ReadersOf(State, 4, "x") :
          /\ watchers[w].expr = Elem("b")
          /\ Count(setProp(State, 4, "x", Flip(ownValue(State, 4, "x"))).events,
                   "update", w) = 1

(***************************************************************************)
(* SpecSet: data = { a: { x: 0 }, b: 0 } with its nested record, a         *)
(* component instance, a non-extensible record and a record nothing has    *)
(* observed yet.  Keys are added to and deleted from the nested record     *)
(* with set and del.                                                       *)
(***************************************************************************)
\* the deps created in SpecSet
MaxDeps == 7

SetHeap ==
    << Obj("record", <<"a", "b">>,
           [k \in {"a", "b"} |-> IF k = "a" THEN Ref(2) ELSE Num(0)], << >>),
       Obj("record", <<"x">>, [k \in {"x"} |-> Num(0)], << >>),
       [Obj("record", <<"x">>, [k \in {"x"} |-> Num(0)], << >>)
           EXCEPT !.isVue = TRUE],
       [Obj("record", <<"x">>, [k \in {"x"} |-> Num(0)], << >>)
           EXCEPT !.ext = FALSE],
       Obj("record", <<"x">>, [k \in {"x"} |-> Num(0)], << >>) >>

InitSet == Start(observe(RawState(SetHeap), Ref(1), TRUE))

Nested(k) == [op |-> "nested", o |-> 1, k |-> k, l |-> 0]

SetTemplates ==
    { Tmpl(Nested("a"), NoCb, Plain),
      Tmpl(Nested("a"), NoCb, Sync) }

\* set(o, k, v)
Set(o, k, v) ==
    /\ Len(subs) < MaxDeps
    /\ Commit(set(State, Ref(o), Str(k), v))

\* del(o, k)
Del(o, k) == Commit(del(State, Ref(o), Str(k)))

\* observe(v)
ObserveCall(v) ==
    /\ Len(subs) < MaxDeps
    /\ Commit(observe(State, v, FALSE))

NextSet ==
    \/ \E v \in Bits : Set(2, "a", v)
    \/ \E k \in {"b", "x"}, v \in Bits : Set(1, k, v)
    \/ \E o \in {1, 2} : Del(o, "a")
    \/ \E v \in {Ref(5), Ref(4), Ref(3), Ref(2), Num(0)} : ObserveCall(v)
    \/ \E t \in SetTemplates : NewWatcherOnce(t)
    \/ Tick

SpecSet == InitSet /\ [][NextSet]_vars

Containers(S) == 1..Len(S.heap)

\* the places that hold a dep: the Observer of a container, a reactive
\* field of a container
Holders(S) ==
    {<<c, "__ob__">> : c \in {d \in Containers(S) : S.heap[d].ob # 0}}
    \cup {h \in Containers(S) \X Keys : S.heap[h[1]].prop[h[2]].dep # 0}

DepOf(S, h) ==
    IF h[2] = "__ob__" THEN S.heap[h[1]].ob ELSE S.heap[h[1]].prop[h[2]].dep

(***************************************************************************)
(* C14  observe is idempotent.  A container has at most one Observer with  *)
(* one dep of its own, shared with no other container and no field.        *)
(* observe(c) of a container that has an Observer returns that Observer    *)
(* and creates no dep and no accessor: heap and subscriber lists stay as   *)
(* they are (as root data only vmCount is counted up).  It returns nothing *)
(* and changes nothing for a primitive, for a non-extensible value and for *)
(* a component instance.  Observing an eligible container for the first    *)
(* time and then again gives the same Observer twice.                      *)
(***************************************************************************)
ObserveIdempotent ==
    /\ \A g, h \in Holders(State) :
          /\ DepOf(State, g) \in 1..Len(subs)
          /\ g # h => DepOf(State, g) # DepOf(State, h)
    /\ \A c \in Containers(State) :
          heap[c].ob # 0 =>
              /\ LET S1 == observe(State, Ref(c), FALSE)
                 IN  S1.retOb = c /\ S1.heap = heap /\ S1.subs = subs
              /\ LET S1 == observe(State, Ref(c), TRUE)
                 IN  /\ S1.retOb = c /\ S1.subs = subs
                     /\ S1.heap = [heap EXCEPT ![c].vmCount = @ + 1]
    /\ \A v \in {Num(0), NaN, Undef, Null}
                \cup {Ref(c) : c \in {d \in Containers(State) :
                                        /\ heap[d].ob = 0
                                        /\ ~heap[d].ext \/ heap[d].isVue}} :
          LET S1 == observe(State, v, FALSE)
          IN  S1.retOb = 0 /\ S1.heap = heap /\ S1.subs = subs
    /\ \A c \in Containers(State) :
          (heap[c].ob = 0 /\ Eligible(State, Ref(c))) =>
              LET S1 == observe(State, Ref(c), FALSE)
                  S2 == observe(S1, Ref(c), FALSE)
              IN  /\ S1.retOb = c /\ S1.heap[c].ob = Len(subs) + 1
                  /\ S2.retOb = c /\ S2.heap = S1.heap /\ S2.subs = S1.subs

\* the spare record was observed, had a key added by set, and watchers
\* are subscribed to deps of the nested record
ObserveIdempotentWitness ==
    /\ heap[5].ob # 0
    /\ heap[2].ob # 0 /\ hasOwn(State, 2, "a")
    /\ subs[heap[2].ob] # << >>
    /\ observe(State, Ref(5), FALSE).retOb = 5
    /\ observe(State, Ref(4), FALSE).retOb = 0

\* the state after the flush that is scheduled, if one is
Settled(S) == IF S.scheduled > 0 THEN runTick(S) ELSE S

\* a value-changing write to field k of container c updates watcher w once
WriteUpdates(S, c, k, w) ==
    Count(setProp(Fresh(S), c, k, Flip(ownValue(S, c, k))).events,
          "update", w) = 1

(***************************************************************************)
(* C15  set(c, key, value), c a record with an Observer that is neither    *)
(* root data nor a component instance and key not yet present, defines     *)
(* key as a reactive field holding value and returns value; the dep of     *)
(* c's Observer notifies exactly once, which updates every watcher whose   *)
(* evaluation read c through the reactive field of its parent.  A later    *)
(* write to the new key updates the watchers that read it: those the       *)
(* notification ran at once, and after the flush every watcher whose       *)
(* evaluation read the key.                                                *)
(***************************************************************************)
SetAddsReactiveKey ==
    \A k \in Keys, v \in Bits \cup {Ref(5)} :
        (heap[2].ob # 0 /\ heap[2].vmCount = 0 /\ ~hasOwn(State, 2, k)) =>
            LET S1 == set(State, Ref(2), Str(k), v)
                S2 == Settled(S1)
            IN  /\ hasOwn(S1, 2, k)
                /\ S1.heap[2].prop[k].dep = Len(subs) + 1
                /\ ownValue(S1, 2, k) = v
                /\ S1.ret = v /\ S1.warnings = 0 /\ ~S1.thrown
                /\ Cardinality(NotifiesOf(S1.events, heap[2].ob)) = 1
                /\ \A w \in ReadersOf(State, 1, "a") :
                      /\ Occurrences(subs[heap[2].ob], w) = 1
                      /\ Count(S1.events, "update", w) = 1
                /\ \A w \in 1..Len(watchers) :
                      (watchers[w].active /\ watchers[w].expr = Nested(k)) =>
                          /\ watchers[w].sync => w \in ReadersOf(S1, 2, k)
                          /\ w \in ReadersOf(S2, 2, k)
                          /\ S2.watchers[w].value = v
                /\ \A w \in ReadersOf(S1, 2, k) :
                      Count(S1.events, "get", w) > 0 =>
                          WriteUpdates(S1, 2, k, w)
                /\ \A w \in ReadersOf(S2, 2, k) : WriteUpdates(S2, 2, k, w)

\* the nested record lacks key a, which a synchronous and a queued watcher
\* read through data.a; set adds it and both then read the new field
SetAddsReactiveKeyWitness ==
    /\ heap[2].ob # 0 /\ ~hasOwn(State, 2, "a")
    /\ \E w, x \in ReadersOf(State, 1, "a") :
          /\ watchers[w].expr = Nested("a") /\ watchers[w].sync
          /\ watchers[x].expr = Nested("a") /\ ~watchers[x].sync
          /\ LET S1 == set(State, Ref(2), Str("a"), Num(1))
             IN  /\ w \in ReadersOf(S1, 2, "a")
                 /\ x \notin ReadersOf(S1, 2, "a")
                 /\ x \in ReadersOf(Settled(S1), 2, "a")
                 /\ WriteUpdates(Settled(S1), 2, "a", x)

(***************************************************************************)
(* C16  set(array, i, v) with a valid index on an array that has an        *)
(* Observer goes through the intercepted splice: afterwards array[i] is v, *)
(* the length is the larger of the old length and i + 1, the other         *)
(* elements stay and the places in between are empty; v has an Observer if *)
(* it is eligible; the dep of the array's Observer notifies exactly once;  *)
(* set returns v.                                                          *)
(***************************************************************************)
SetArrayIndex ==
    \A i \in 0..(MaxLen + 1), v \in Items \cup {Num(0)} :
        LET old == heap[3].elems
            S1 == set(State, Ref(3), Num(i), v)
            new == S1.heap[3].elems
        IN  /\ Len(new) = Max(Len(old), i + 1)
            /\ new[i + 1] = v
            /\ \A j \in 1..Len(new) :
                  j # i + 1 => new[j] = IF j <= Len(old) THEN old[j] ELSE Undef
            /\ Eligible(State, v) => Wrapped(S1, v.v)
            /\ Cardinality(NotifiesOf(S1.events, heap[3].ob)) = 1
            /\ \A w \in 1..Len(watchers) :
                  Occurrences(subs[heap[3].ob], w) = 1 =>
                      Count(S1.events, "update", w) = 1
            /\ S1.ret = v /\ S1.warnings = 0 /\ ~S1.thrown

\* set has put the record at index 1 of the empty array, leaving index 0
\* empty; a watcher of the array is subscribed, and set at index 2 makes
\* the length 3
SetArrayIndexWitness ==
    /\ heap[3].elems = <<Undef, Ref(4)>>
    /\ Wrapped(State, 4)
    /\ subs[heap[3].ob] # << >>
    /\ LET S1 == set(State, Ref(3), Num(2), Num(1))
       IN  S1.heap[3].elems = <<Undef, Ref(4), Num(1)>>

\* the records set and del guard: root data (vmCount > 0) and component
\* instances
Guarded(S) ==
    {c \in Containers(S) :
        S.heap[c].isVue \/ (S.heap[c].ob # 0 /\ S.heap[c].vmCount > 0)}

\* the handler refused: one diagnostic, nothing changed, nothing notified
Refused(S1) ==
    /\ S1.warnings = 1
    /\ ~S1.thrown
    /\ S1.events = << >>
    /\ [S1 EXCEPT !.warnings = 0, !.ret = Undef] = State

(***************************************************************************)
(* C17, as claimed  set and del on root data or on a component instance    *)
(* refuse whatever the key: one diagnostic, keys and values unchanged, no  *)
(* dep notified.                                                           *)
(***************************************************************************)
RootMutationRefused ==
    \A c \in Guarded(State), k \in Keys, v \in Bits :
        /\ Refused(set(State, Ref(c), Str(k), v))
        /\ Refused(del(State, Ref(c), Str(k)))

(***************************************************************************)
(* C17, amended  del on root data or on a component instance refuses       *)
(* whatever the key, and set refuses when the key is not yet present on    *)
(* the target: one diagnostic, keys and values unchanged, no dep notified. *)
(* set of a key the target has is the assignment target[key] = val, made   *)
(* without diagnostic before the guard is reached: on root data it goes    *)
(* through the reactive setter and notifies the field's dep.               *)
(***************************************************************************)
RootMutationRefusedNewKey ==
    \A c \in Guarded(State), k \in Keys, v \in Bits :
        /\ Refused(del(State, Ref(c), Str(k)))
        /\ LET S1 == set(State, Ref(c), Str(k), v)
           IN  IF hasOwn(State, c, k)
               THEN /\ S1 = [setProp(State, c, k, v) EXCEPT !.ret = v]
                    /\ S1.warnings = 0
                    /\ ownValue(S1, c, k) = v
               ELSE Refused(S1) /\ S1.ret = v

\* set has assigned 1 to the existing key b of root data while a watcher
\* reads data.a; the root lacks x and set of x is refused, set of b
\* notifies
RootMutationRefusedNewKeyWitness ==
    /\ ownValue(State, 1, "b") = Num(1)
    /\ heap[1].vmCount > 0 /\ ~hasOwn(State, 1, "x")
    /\ subs[heap[1].prop["a"].dep] # << >>
    /\ set(State, Ref(1), Str("x"), Num(1)).warnings = 1
    /\ set(State, Ref(1), Str("b"), Num(0)).events # << >>

\* targets that are no container: undefined, null and primitive values
NoContainers == {Undef, Null, Num(0), NaN, Str("a")}

\* the handler changed nothing and notified nothing
NoOp(S1) ==
    /\ S1.events = << >>
    /\ [S1 EXCEPT !.warnings = 0, !.ret = Undef, !.thrown = FALSE] = State

(***************************************************************************)
(* C18  set and del on a target that is undefined, null or a primitive     *)
(* emit one diagnostic and are a no-op: they change no state, notify no    *)
(* dep and raise no error to the caller.                                   *)
(***************************************************************************)
PrimitiveTargetIsNoOp ==
    \A t \in NoContainers, k \in Keys, v \in Bits :
        /\ LET S1 == set(State, t, Str(k), v)
           IN  S1.warnings = 1 /\ NoOp(S1) /\ ~S1.thrown
        /\ LET S1 == del(State, t, Str(k))
           IN  S1.warnings = 1 /\ NoOp(S1) /\ ~S1.thrown

(***************************************************************************)
(* What holds of such targets: one diagnostic, no change of state and no   *)
(* notification; set then raises a TypeError (key in target) for each of   *)
(* them, del (target.__ob__) for undefined and null.                       *)
(***************************************************************************)
PrimitiveTargetWarnsAndThrows ==
    \A t \in NoContainers, k \in Keys, v \in Bits :
        /\ LET S1 == set(State, t, Str(k), v)
           IN  S1.warnings = 1 /\ NoOp(S1) /\ S1.thrown
        /\ LET S1 == del(State, t, Str(k))
           IN  S1.warnings = 1 /\ NoOp(S1) /\ (S1.thrown <=> isUndef(t))

(***************************************************************************)
(* SpecCircular: a deep watcher of data.a, whose callback each run         *)
(* invokes, writes another value to data.a in its callback; other watchers *)
(* only read.                                                              *)
(***************************************************************************)
FlipCb(k) == [op |-> "flip", o |-> 1, k |-> k, v |-> Undef]

CircularTemplates ==
    { Tmpl(Path("a"), FlipCb("a"), Deep),
      Tmpl(Path("a"), NoCb, Plain),
      Tmpl(Path("b"), NoCb, Plain) }

NextCircular ==
    \/ \E k \in {"a", "b"}, v \in Bits : Write(k, v)
    \/ \E t \in CircularTemplates : NewWatcherOnce(t)
    \/ Tick

SpecCircular == Init /\ [][NextCircular]_vars

\* the watchers whose every run invokes the callback, which changes the
\* field they watch
SelfDirtying(S) ==
    {w \in 1..Len(S.watchers) :
        /\ S.watchers[w].active
        /\ S.watchers[w].deep
        /\ S.watchers[w].cb.op = "flip"
        /\ S.watchers[w].expr = Path(S.watchers[w].cb.k)}

(***************************************************************************)
(* C19  A watcher whose run always makes itself dirty again is pending     *)
(* when a flush starts.  The flush runs it once and once more for each of  *)
(* MAX_UPDATE_COUNT (100) times it was enqueued again while running; when  *)
(* it is enqueued the next time the guard emits one diagnostic and drops   *)
(* it from this pass.  The flush ends with the scheduler state reset, the  *)
(* watcher stays active, and a later change of the field schedules it      *)
(* again.                                                                  *)
(***************************************************************************)
CircularGuard ==
    \A w \in SelfDirtying(State) :
        (watchers[w].id \in has /\ scheduled > 0) =>
            LET S2 == runTick(State)
                S3 == setProp(Fresh(S2), 1, "a", Flip(ownValue(S2, 1, "a")))
            IN  /\ Count(S2.events, "run", w) = MAX_UPDATE_COUNT + 1
                /\ Count(S2.events, "cb", w) = MAX_UPDATE_COUNT + 1
                /\ Count(S2.events, "queue", w) = MAX_UPDATE_COUNT + 1
                /\ S2.warnings = 1
                /\ S2.queue = << >> /\ S2.has = {} /\ S2.circular = << >>
                /\ ~S2.flushing /\ ~S2.waiting /\ S2.index = 0
                /\ S2.watchers[w].active
                /\ watchers[w].id \in S3.has
                /\ Occurrences(S3.queue, w) = 1
                /\ S3.scheduled > 0

\* the self-dirtying watcher and a watcher that only reads are pending;
\* the flush that is scheduled ends with one diagnostic
CircularGuardWitness ==
    \E w \in SelfDirtying(State) :
        /\ watchers[w].id \in has /\ scheduled > 0
        /\ \E x \in 1..Len(watchers) : x # w /\ watchers[x].id \in has
        /\ runTick(State).warnings = 1
        /\ runTick(State).queue = << >>

(***************************************************************************)
(* SpecNextTick: the application gives callbacks to nextTick, each with a  *)
(* context; some of them call nextTick again when they are invoked.  A     *)
(* watcher of data.a makes the scheduler give flushSchedulerQueue to       *)
(* nextTick in between.  The platform runs every flushCallbacks it was     *)
(* handed: timerFunc uses a microtask, or a timer that fires.              *)
(***************************************************************************)
\* callbacks the application gives to nextTick from outside a callback
MaxCallbacks == 3

Contexts == {Ref(1), Ref(2)}

\* nextTick(cb, ctx)
Schedule(ctx, again) ==
    /\ Len(issued) < MaxCallbacks
    /\ Commit(userNextTick(State, ctx, again, 0))

NextNextTick ==
    \/ \E ctx \in Contexts, again \in BOOLEAN : Schedule(ctx, again)
    \/ \E v \in Bits : Write("a", v)
    \/ NewWatcherOnce(Tmpl(Path("a"), NoCb, Plain))
    \/ Tick

\* Weak fairness of Tick, WF_vars(Tick), with ENABLED <<Tick>>_vars written
\* out: a Tick step is possible, and changes the state, exactly when a
\* flushCallbacks is in the hands of the platform.
TickFairness == []<>(scheduled = 0) \/ []<><<Tick>>_vars

SpecNextTick == Init /\ [][NextNextTick]_vars /\ TickFairness

\* the callbacks of the application that wait in the queue, in order
RECURSIVE UserIds(_)
UserIds(cbs) ==
    IF cbs = << >> THEN << >>
    ELSE IF Head(cbs).cb.fn = "user"
         THEN <<Head(cbs).cb.id>> \o UserIds(Tail(cbs))
         ELSE UserIds(Tail(cbs))

\* the callbacks are invoked in the order in which they were given to
\* nextTick, once each, with the context given as this, and those not yet
\* invoked wait in the queue in that order
InvokedInOrder ==
    /\ Len(invoked) <= Len(issued)
    /\ \A i \in 1..Len(invoked) :
          invoked[i].id = i /\ invoked[i].this = issued[i].ctx
    /\ UserIds(callbacks)
          = [i \in 1..(Len(issued) - Len(invoked)) |-> Len(invoked) + i]
    /\ callbacks # << >> => pending /\ scheduled > 0

(***************************************************************************)
(* C20  Every callback given to nextTick is eventually invoked, provided   *)
(* the platform runs the flushCallbacks it was handed; it is invoked       *)
(* exactly once, with the context given as this, and the callbacks are     *)
(* invoked in the order in which they were given to nextTick, within one   *)
(* drain and from one drain to the next.                                   *)
(***************************************************************************)
NextTickContract ==
    /\ []InvokedInOrder
    /\ \A n \in 1..(2 * MaxCallbacks) :
          (Len(issued) >= n) ~> (Len(invoked) >= n /\ invoked[n].id = n)

\* three callbacks were invoked, with two different contexts; one of them
\* was given to nextTick by another during a drain and ran in a later one
NextTickContractWitness ==
    /\ Len(invoked) >= 3
    /\ callbacks = << >>
    /\ \E i, j \in 1..Len(invoked) :
          /\ issued[invoked[i].id].by # 0
          /\ invoked[i].this # invoked[j].this

\* the ids of the entries s[from + 1], ..., s[Len(s)]
IdsAfter(s, from) == [i \in 1..(Len(s) - from) |-> s[from + i].id]

\* the calls of nextTick made by the application between S and S1
IssuedBetween(S, S1) ==
    [i \in 1..(Len(S1.issued) - Len(S.issued)) |-> Len(S.issued) + i]

(***************************************************************************)
(* C21  A callback given to nextTick while flushCallbacks runs lands in a  *)
(* fresh queue: the drain in progress invokes exactly the callbacks that   *)
(* waited when it began, the new callback waits in the queue with pending  *)
(* set and one new flushCallbacks handed to the platform, and that next    *)
(* drain invokes it, after every callback of the current drain; a drain    *)
(* begins and ends without another drain beginning in between.             *)
(***************************************************************************)
DrainIsolation ==
    scheduled > 0 =>
        LET S1 == runTick(State)
            ran == IdsAfter(S1.invoked, Len(invoked))
            late == IssuedBetween(State, S1)
            S2 == runTick(S1)
        IN  /\ ran = UserIds(callbacks)
            /\ UserIds(S1.callbacks) = late
            /\ \A i \in 1..Len(late) :
                  \E j \in 1..Len(ran) : S1.issued[late[i]].by = ran[j]
            /\ S1.pending = (S1.callbacks # << >>)
            /\ S1.scheduled
                  = scheduled - 1 + (IF S1.callbacks # << >> THEN 1 ELSE 0)
            /\ Where(S1.events, "drain", 0) = {1}
            /\ Where(S1.events, "drained", 0) = {Len(S1.events)}
            /\ late # << >> =>
                  /\ IdsAfter(S2.invoked, Len(S1.invoked)) = late
                  /\ S2.callbacks = << >> /\ ~S2.pending

\* a drain of at least two callbacks, the first of which gives a new
\* callback to nextTick, which the drain leaves waiting
DrainIsolationWitness ==
    /\ scheduled > 0
    /\ Len(callbacks) >= 2
    /\ callbacks[1].cb.again
    /\ callbacks[2].cb.fn = "user"
    /\ LET S1 == runTick(State)
       IN  /\ Len(S1.invoked) >= Len(invoked) + 2
           /\ Len(S1.callbacks) = 1
           /\ S1.issued[S1.callbacks[1].cb.id].by = callbacks[1].cb.id

(***************************************************************************)
(* Callbacks that throw, and nextTick without a callback.  The application *)
(* gives nextTick callbacks that return, that call nextTick again, or that *)
(* throw, and calls it without a callback where Promise exists; a watcher  *)
(* of data.a puts flushSchedulerQueue among them.                          *)
(***************************************************************************)
\* what a call of nextTick by the application passes: the context, and a
\* callback that does this, or nothing
Passed ==
    { <<Ref(1), "returns">>, <<Ref(2), "again">>, <<Ref(2), "throws">>,
      <<Ref(1), "nothing">>, <<Ref(2), "nothing">> }

CbOf(what, n) ==
    CASE what = "returns" -> UserCb(n, FALSE)
      [] what = "again" -> UserCb(n, TRUE)
      [] what = "throws" -> ThrowingCb(n)
      [] what = "nothing" -> NoCallback(n)

\* nextTick(cb, ctx), nextTick(undefined, ctx)
ScheduleWith(ctx, what) ==
    /\ Len(issued) < MaxCallbacks
    /\ Commit(callNextTick(State, CbOf(what, Len(issued) + 1), ctx, 0))

NextDrain ==
    \/ \E call \in Passed : ScheduleWith(call[1], call[2])
    \/ \E v \in Bits : Write("a", v)
    \/ NewWatcherOnce(Tmpl(Path("a"), NoCb, Plain))
    \/ Tick

SpecDrain == Init /\ [][NextDrain]_vars

\* the state in which the callbacks that wait return instead of throwing
Returning(S) ==
    [S EXCEPT !.callbacks =
        [i \in 1..Len(S.callbacks) |->
            [S.callbacks[i] EXCEPT !.cb.throws = FALSE]]]

\* the positions in the queue of the callbacks that throw
Throwers(cbs) == {i \in 1..Len(cbs) : cbs[i].cb.throws}

\* the closures of the application that wait in the queue, in order
RECURSIVE ClosureIds(_)
ClosureIds(cbs) ==
    IF cbs = << >> THEN << >>
    ELSE IF Head(cbs).cb.fn # "flushSchedulerQueue"
         THEN <<Head(cbs).cb.id>> \o ClosureIds(Tail(cbs))
         ELSE ClosureIds(Tail(cbs))

(***************************************************************************)
(* C22  A callback given to nextTick that throws during a drain has its    *)
(* error handed to handleError, with its context and 'nextTick'; nothing   *)
(* is thrown out of flushCallbacks, every callback of the drain is invoked *)
(* all the same, and the drain ends in the state in which it would have    *)
(* ended had the callback returned: the same queue, pending flag and       *)
(* handed-over drains.                                                     *)
(***************************************************************************)
DrainErrorIsolation ==
    scheduled > 0 =>
        LET S1 == runTick(State)
            S0 == runTick(Returning(State))
            at == Throwers(callbacks)
        IN  /\ ~S1.thrown
            /\ Len(S1.errors) = Cardinality(at)
            /\ \A n \in 1..Len(S1.errors) :
                  /\ S1.errors[n].info = Info("nextTick", 0)
                  /\ \E i \in at :
                        /\ Cardinality({j \in at : j <= i}) = n
                        /\ S1.errors[n].vm = callbacks[i].ctx
            /\ IdsAfter(S1.invoked, Len(invoked)) = ClosureIds(callbacks)
            /\ S1.callbacks = S0.callbacks
            /\ S1.pending = S0.pending
            /\ S1.scheduled = S0.scheduled
            /\ [S1 EXCEPT !.errors = << >>] = S0

\* a drain whose first callback throws and is followed by two more, and
\* which invokes all of them and reports one error
DrainErrorIsolationWitness ==
    /\ scheduled > 0
    /\ Len(callbacks) >= 3
    /\ callbacks[1].cb.throws
    /\ callbacks[Len(callbacks)].cb.fn = "user"
    /\ LET S1 == runTick(State)
       IN  /\ Len(S1.errors) >= 1
           /\ Len(S1.invoked) >= Len(invoked) + 3

\* the n-th call of nextTick by the application was made without a callback
Deferred(n) == issued[n].cb.fn = "undefined"

(***************************************************************************)
(* C23  nextTick called without a callback returns a promise, which is     *)
(* resolved with the context given, once, when the drain reaches the       *)
(* position at which the call put its closure in the queue: after every    *)
(* callback given to nextTick before it was invoked, and before any given  *)
(* after it is.  No promise is resolved before the drain.                  *)
(***************************************************************************)
DeferredResult ==
    /\ \A ctx \in Contexts :
          LET n == Len(issued) + 1
              S1 == callNextTick(State, NoCallback(n), ctx, 0)
              S2 == callNextTick(State, UserCb(n, FALSE), ctx, 0)
          IN  /\ S1.ret = Promise(n) /\ S2.ret = Undef
              /\ S1.invoked = invoked
              /\ ClosureIds(S1.callbacks) = Append(ClosureIds(callbacks), n)
    /\ \A i \in 1..Len(invoked) :
          /\ invoked[i].id = i
          /\ invoked[i].this = issued[i].ctx
          /\ (invoked[i].how = "resolve") = Deferred(i)
    /\ ClosureIds(callbacks)
          = [i \in 1..(Len(issued) - Len(invoked)) |-> Len(invoked) + i]
    /\ scheduled > 0 =>
          LET S1 == runTick(State)
          IN  /\ IdsAfter(S1.invoked, Len(invoked)) = ClosureIds(callbacks)
              /\ \A i \in 1..Len(S1.invoked) :
                    (S1.invoked[i].how = "resolve")
                        = (S1.issued[S1.invoked[i].id].cb.fn = "undefined")

\* a promise was resolved, between the invocations of a callback given to
\* nextTick before the call that returned it and of one given after
DeferredResultWitness ==
    \E i \in 2..(Len(invoked) - 1) :
        /\ invoked[i].how = "resolve"
        /\ invoked[i - 1].how = "call"
        /\ invoked[i + 1].how = "call"
        /\ issued[i + 1].by = 0

(***************************************************************************)
(* Computations and callbacks that throw.  Watchers registered by the user *)
(* (vm.$watch, user: true) and watchers owned by the framework, whose      *)
(* computation throws when data.a is 1 and reads data.b otherwise, or      *)
(* whose callback throws, besides a watcher of data.a that does neither.   *)
(***************************************************************************)
Throwing(k) == [op |-> "throwing", o |-> 1, k |-> k, l |-> 0]
ThrowCb == [op |-> "throw", o |-> 1, k |-> "a", v |-> Undef]
User == [Plain EXCEPT !.user = TRUE]

ErrorTemplates ==
    { Tmpl(Throwing("a"), NoCb, User),
      Tmpl(Throwing("a"), NoCb, Plain),
      Tmpl(Path("a"), ThrowCb, User),
      Tmpl(Path("a"), ThrowCb, Plain),
      Tmpl(Path("a"), NoCb, Plain) }

NextErrors ==
    \/ \E k \in {"a", "b"}, v \in Bits : Write(k, v)
    \/ \E t \in ErrorTemplates : NewWatcher(t, MaxFewWatchers)
    \/ Tick

SpecErrors == Init /\ [][NextErrors]_vars

\* the computation of watcher w throws in state S
GetterThrows(S, w) ==
    /\ S.watchers[w].expr.op = "throwing"
    /\ ownValue(S, S.watchers[w].expr.o, S.watchers[w].expr.k) = Num(1)

\* watcher w is owned by the framework and its computation or its callback
\* may throw
Unguarded(S, w) ==
    /\ ~S.watchers[w].user
    /\ S.watchers[w].expr.op = "throwing" \/ S.watchers[w].cb.op = "throw"

(***************************************************************************)
(* C24  When run() invokes the callback of a user watcher and the callback *)
(* throws, the error goes to handleError with 'callback for watcher' and   *)
(* run() returns without throwing, with the new value already cached; in a *)
(* flush whose pending watchers a user registered or cannot throw, every   *)
(* pending watcher still runs, once.                                       *)
(***************************************************************************)
UserCallbackErrorIsolated ==
    /\ \A w \in 1..Len(watchers) :
          LET W == watchers[w]
              S1 == run(Fresh(State), w)
              at == Where(S1.events, "cb", w)
          IN  (W.user /\ W.cb.op = "throw" /\ at # {}) =>
                  /\ ~S1.thrown
                  /\ S1.errors
                        = << [vm |-> Vm,
                              info |-> Info("callback for watcher", w)] >>
                  /\ S1.watchers[w].value = ValueOf(State, W.expr)
                  /\ S1.watchers[w].value # W.value
                  /\ \A p \in at :
                        /\ S1.events[p].a = S1.watchers[w].value
                        /\ S1.events[p].b = W.value
    /\ (scheduled > 0 /\ \A i \in 1..Len(queue) : ~Unguarded(State, queue[i]))
          => LET S1 == runTick(Fresh(State))
             IN  /\ ~S1.thrown
                 /\ \A i \in 1..Len(queue) :
                       Count(S1.events, "run", queue[i]) = 1
                 /\ Count(S1.events, "cb", 0) = 0
                 /\ Len(S1.errors)
                       = Cardinality({p \in 1..Len(S1.events) :
                                        /\ S1.events[p].e = "cb"
                                        /\ watchers[S1.events[p].w].cb.op
                                              = "throw"})
                          + Cardinality({i \in 1..Len(queue) :
                                           GetterThrows(State, queue[i])})

\* a flush in which the callback of a user watcher throws and the watcher
\* pending behind it runs all the same
UserCallbackErrorIsolatedWitness ==
    /\ scheduled > 0
    /\ Len(queue) = 2
    /\ watchers[queue[1]].user
    /\ watchers[queue[1]].cb.op = "throw"
    /\ ~Unguarded(State, queue[2])
    /\ LET S1 == runTick(Fresh(State))
       IN  /\ Len(S1.errors) = 1
           /\ S1.errors[1].info = Info("callback for watcher", queue[1])
           /\ NextAt(S1.events, "run", queue[2],
                     NextAt(S1.events, "cb", queue[1], 0)) > 0

\* the deps of the fields that the computation of watcher w reads in S
ReadsOf(S, w) ==
    LET e == S.watchers[w].expr
    IN  CASE e.op = "path" -> {S.heap[e.o].prop[e.k].dep}
          [] e.op = "throwing" ->
                IF GetterThrows(S, w) THEN {S.heap[e.o].prop[e.k].dep}
                ELSE {S.heap[e.o].prop[e.k].dep, S.heap[e.o].prop["b"].dep}

\* the dependency sets of watcher w are reconciled with what it read
Reconciled(S, S1, w) ==
    /\ S1.watchers[w].newDeps = << >>
    /\ S1.watchers[w].newDepIds = {}
    /\ S1.watchers[w].depIds = ReadsOf(S, w)
    /\ Len(S1.watchers[w].deps) = Cardinality(ReadsOf(S, w))
    /\ \A i \in 1..Len(S1.watchers[w].deps) :
          S1.watchers[w].deps[i] \in ReadsOf(S, w)
    /\ \A d \in DOMAIN S1.subs :
          Occurrences(S1.subs[d], w) = IF d \in ReadsOf(S, w) THEN 1 ELSE 0

(***************************************************************************)
(* C25  When the computation of a watcher throws during get(), a watcher   *)
(* owned by the framework rethrows the error to the caller of get(), and a *)
(* user watcher hands it to handleError with 'getter for watcher' and      *)
(* get() returns undefined; either way the watcher was pushed and is       *)
(* popped again, so that the stack of targets is what it was, and          *)
(* cleanupDeps has run: the watcher subscribes to exactly the deps it read *)
(* before the error.                                                       *)
(***************************************************************************)
GetErrorPolicy ==
    \A w \in 1..Len(watchers) :
        GetterThrows(State, w) =>
            LET S1 == get(Fresh(State), w)
            IN  /\ S1.thrown = ~watchers[w].user
                /\ S1.ret = Undef
                /\ S1.errors
                      = IF watchers[w].user
                        THEN << [vm |-> Vm,
                                 info |-> Info("getter for watcher", w)] >>
                        ELSE << >>
                /\ S1.events = << Ev("get", w, 0, Undef, Undef) >>
                /\ S1.targetStack = targetStack
                /\ Reconciled(State, S1, w)
                /\ S1.watchers[w].value = watchers[w].value

\* a user watcher and a watcher of the framework whose computations read
\* data.b when they were last evaluated and throw now
GetErrorPolicyWitness ==
    \E u, f \in 1..Len(watchers) :
        /\ watchers[u].user /\ ~watchers[f].user
        /\ GetterThrows(State, u) /\ GetterThrows(State, f)
        /\ Cardinality(watchers[u].depIds) = 2
        /\ Cardinality(watchers[f].depIds) = 2
        /\ get(State, f).thrown
        /\ Len(get(State, u).errors) = 1
        /\ Cardinality(get(State, u).watchers[u].depIds) = 1

\* run() of watcher w, if called in state S, throws: the watcher is owned by
\* the framework, and its computation throws or its callback is invoked
\* and throws
RunThrows(S, w) ==
    /\ S.watchers[w].active
    /\ ~S.watchers[w].user
    /\ \/ GetterThrows(S, w)
       \/ /\ S.watchers[w].cb.op = "throw"
          /\ ValueOf(S, S.watchers[w].expr) # S.watchers[w].value

\* the scheduler is as resetSchedulerState leaves it
SchedulerReset(S) ==
    /\ S.queue = << >> /\ S.index = 0 /\ S.has = {}
    /\ ~S.waiting /\ ~S.flushing

\* the flush that the next drain runs in state S runs every pending
\* watcher, lets no error out, leaves the scheduler reset, and a change
\* after it puts the watcher on the queue and schedules a new flush
FlushCompletes(S) ==
    LET S1 == runTick(Fresh(S))
    IN  /\ ~S1.thrown
        /\ \A i \in 1..Len(S.queue) :
              Count(S1.events, "run", S.queue[i]) >= 1
        /\ SchedulerReset(S1)
        /\ \A w \in 1..Len(S1.watchers) :
              LET S2 == update(Fresh(S1), w)
              IN  /\ S2.queue = << w >>
                  /\ S2.waiting
                  /\ Count(S2.events, "nextTick", 0) = 1
                  /\ S2.scheduled = S1.scheduled + 1

FlushContainsUserErrorsOnly ==
    scheduled > 0 =>
        LET S1 == runTick(Fresh(State))
            order == sortQueue(State, queue)
            first == {i \in 1..Len(order) :
                        /\ RunThrows(State, order[i])
                        /\ \A j \in 1..(i - 1) : ~RunThrows(State, order[j])}
        IN  /\ first = {} => FlushCompletes(State)
            /\ \A i \in first :
                  /\ ~S1.thrown
                  /\ S1.errors[Len(S1.errors)]
                        = [vm |-> Undef, info |-> Info("nextTick", 0)]
                  /\ \A j \in 1..Len(order) :
                        Count(S1.events, "run", order[j])
                            = IF j <= i THEN 1 ELSE 0
                  /\ S1.flushing /\ S1.waiting
                  /\ \A w \in 1..Len(S1.watchers) :
                        LET S2 == update(Fresh(S1), w)
                        IN  /\ Count(S2.events, "nextTick", 0) = 0
                            /\ S2.scheduled = S1.scheduled

\* a flush in which the first pending watcher is owned by the framework
\* and throws, with another watcher pending behind it
FlushContainsUserErrorsOnlyWitness ==
    /\ scheduled > 0
    /\ Len(queue) = 2
    /\ RunThrows(State, sortQueue(State, queue)[1])
    /\ LET S1 == runTick(Fresh(State))
       IN  /\ Count(S1.events, "run", queue[2]) = 0
           /\ S1.flushing
           /\ Len(S1.errors) = 1

(***************************************************************************)
(* Sync watchers.  Watchers with sync: true over data.a and data.b, two of *)
(* them with a callback that writes the other field, two with a            *)
(* computation that reads a field or not depending on the other, besides a *)
(* watcher of data.a that is queued.                                       *)
(***************************************************************************)
Unless == [op |-> "unless", o |-> 1, k |-> "b", l |-> 0]

SyncTemplates ==
    { Tmpl(Path("a"), WriteCb("b", Num(1)), Sync),
      Tmpl(Unless, NoCb, Sync),
      Tmpl(Path("b"), WriteCb("a", Num(1)), Sync),
      Tmpl(Cond, NoCb, Sync),
      Tmpl(Path("a"), NoCb, Plain) }

NextSync ==
    \/ \E k \in {"a", "b"}, v \in Bits : Write(k, v)
    \/ \E t \in SyncTemplates : NewWatcherOnce(t)
    \/ Tick

SpecSync == Init /\ [][NextSync]_vars

\* watcher w is sync and not lazy
Immediate(S, w) == S.watchers[w].sync /\ ~S.watchers[w].lazy

(***************************************************************************)
(* C27  update() on a sync watcher that is not lazy calls run() at once:   *)
(* the watcher is not put on the queue of the scheduler and no flush is    *)
(* scheduled for it, and within a write that notifies it, every update()   *)
(* of it is followed immediately by its run() and its re-evaluation, so    *)
(* that when the write returns its cached value is up to date.             *)
(***************************************************************************)
SyncRunsInsideWrite ==
    /\ \A w \in 1..Len(watchers) :
          Immediate(State, w) =>
              LET S1 == update(Fresh(State), w)
              IN  /\ Len(S1.events) >= 3
                  /\ S1.events[1] = Ev("update", w, 0, Undef, Undef)
                  /\ S1.events[2] = Ev("run", w, 0, Undef, Undef)
                  /\ S1.events[3] = Ev("get", w, 0, Undef, Undef)
                  /\ Count(S1.events, "queue", w) = 0
                  /\ Occurrences(S1.queue, w) = 0
                  /\ watchers[w].id \notin S1.has
                  /\ watchers[w].cb.op = "none" =>
                        /\ S1.queue = queue /\ S1.has = has
                        /\ S1.waiting = waiting
                        /\ S1.callbacks = callbacks
                        /\ S1.pending = pending
                        /\ S1.scheduled = scheduled
    /\ \A k \in {"a", "b"}, v \in Bits :
          LET S1 == setProp(Fresh(State), 1, k, v)
          IN  \A w \in 1..Len(watchers) :
                  Immediate(State, w) =>
                      /\ \A p \in Where(S1.events, "update", w) :
                            /\ p + 2 <= Len(S1.events)
                            /\ S1.events[p + 1] = Ev("run", w, 0, Undef, Undef)
                            /\ S1.events[p + 2] = Ev("get", w, 0, Undef, Undef)
                      /\ Count(S1.events, "queue", w) = 0
                      /\ Occurrences(S1.queue, w) = 0
                      /\ S1.watchers[w].value = ValueOf(S1, watchers[w].expr)
                      /\ (\A x \in 1..Len(watchers) : Immediate(State, x))
                            => /\ S1.scheduled = scheduled
                               /\ S1.callbacks = callbacks

\* a write notifies a sync watcher and a queued watcher: the sync watcher
\* has run and holds the new value when the write returns, the other waits
SyncRunsInsideWriteWitness ==
    \E w, q \in 1..Len(watchers) :
        /\ Immediate(State, w) /\ ~watchers[q].sync
        /\ queue = << >> /\ scheduled = 0
        /\ LET S1 == setProp(Fresh(State), 1, "a", Num(1))
           IN  /\ Count(S1.events, "update", w) >= 1
               /\ Count(S1.events, "run", w) >= 1
               /\ S1.watchers[w].value # watchers[w].value
               /\ S1.queue = << q >>
               /\ S1.scheduled = 1
               /\ Count(S1.events, "run", q) = 0

\* the positions in the log at which the first call of notify() in it
\* calls update() for the i-th time
EachAt(ev, i) ==
    {p \in 1..Len(ev) :
        ev[p].e = "each" /\ ev[p].a = Num(1) /\ ev[p].b = Num(i)}

\* the calls of update() made by the first call of notify() in the log
CallsOf(ev) ==
    {p \in 1..Len(ev) : ev[p].e = "each" /\ ev[p].a = Num(1)}

(***************************************************************************)
(* C30  notify() calls update() once on each watcher that is in the list   *)
(* of subscribers of the dep when notify() begins, in the order of the     *)
(* list, and on no other, also when the sync watchers it updates run and,  *)
(* re-evaluating or through the writes of their callbacks, add watchers to *)
(* the list or remove watchers from it, themselves included.               *)
(***************************************************************************)
\* the first call of notify() in the log of S1, on dep d, called update()
\* once on each watcher of the list subscribed, in its order
UpdatesEach(S1, subscribed, d) ==
    /\ Cardinality(CallsOf(S1.events)) = Len(subscribed)
    /\ \A i \in 1..Len(subscribed) :
          \E p \in EachAt(S1.events, i) :
              /\ EachAt(S1.events, i) = {p}
              /\ S1.events[p].w = subscribed[i]
              /\ S1.events[p].d = d
              /\ S1.events[p + 1]
                    = Ev("update", subscribed[i], 0, Undef, Undef)
              /\ \A j \in 1..(i - 1) :
                    \A q \in EachAt(S1.events, j) : q < p

NotifySnapshot ==
    /\ \A d \in DOMAIN subs :
          /\ \A w \in 1..Len(watchers) : Occurrences(subs[d], w) <= 1
          /\ UpdatesEach(notify(Fresh(State), d), subs[d], d)
    /\ \A k \in {"a", "b"}, v \in Bits :
          LET S1 == setProp(Fresh(State), 1, k, v)
              d == heap[1].prop[k].dep
          IN  Count(S1.events, "notify", 0) > 0 =>
                  /\ S1.events[1] = Ev("notify", 0, d, Undef, Undef)
                  /\ UpdatesEach(S1, subs[d], d)

\* the watcher w left (joined) the list of the dep of data[k] while the
\* write of 1 to data[k] was notifying that dep
Changed(k, w, joined) ==
    LET S1 == setProp(Fresh(State), 1, k, Num(1))
        d == heap[1].prop[k].dep
        called == {S1.events[p].w : p \in CallsOf(S1.events)}
    IN  /\ Len(subs[d]) >= 2
        /\ Occurrences(subs[d], w) = (IF joined THEN 0 ELSE 1)
        /\ Occurrences(S1.subs[d], w) = (IF joined THEN 1 ELSE 0)
        /\ (w \in called) = ~joined

\* a write during whose notification a watcher still to be updated left
\* the list of the dep, and was updated all the same; and a write during
\* whose notification a watcher joined the list, and was not updated
NotifySnapshotWitness ==
    /\ \E w \in 1..Len(watchers) : Changed("a", w, FALSE)
    /\ \E w \in 1..Len(watchers) : Changed("b", w, TRUE)

\* watcher w waits in the queue of a flush that is scheduled but has not
\* begun, and was torn down
TornDownPending(S, w) ==
    /\ S.scheduled > 0 /\ ~S.flushing
    /\ Occurrences(S.queue, w) = 1
    /\ ~S.watchers[w].active

(***************************************************************************)
(* C28  run() on a watcher that was torn down does nothing: it does not    *)
(* evaluate the computation, leaves the cached value and the dependency    *)
(* sets as they are and does not invoke the callback.  A watcher torn down *)
(* after it was put on the queue and before its turn is skipped in this    *)
(* way by the flush, which runs the other pending watchers.                *)
(***************************************************************************)
InactiveIsSkipped ==
    \A w \in 1..Len(watchers) :
        ~watchers[w].active =>
            /\ run(Fresh(State), w)
                  = [State EXCEPT
                        !.events = << Ev("run", w, 0, Undef, Undef) >>]
            /\ TornDownPending(State, w) =>
                  LET S1 == runTick(Fresh(State))
                  IN  /\ Count(S1.events, "run", w) = 1
                      /\ Count(S1.events, "get", w) = 0
                      /\ Count(S1.events, "cb", w) = 0
                      /\ S1.watchers[w] = watchers[w]
                      /\ S1.hist[w] = hist[w]
                      /\ \A d \in DOMAIN S1.subs :
                            Occurrences(S1.subs[d], w) = 0
                      /\ \A i \in 1..Len(queue) :
                            watchers[queue[i]].active =>
                                /\ Count(S1.events, "run", queue[i]) = 1
                                /\ Count(S1.events, "get", queue[i]) = 1
                      /\ S1.queue = << >> /\ S1.has = {}

\* a watcher whose field changed was put on the queue and then torn down,
\* behind a watcher that is still active: the flush evaluates the one and
\* leaves the other with its stale value
InactiveIsSkippedWitness ==
    \E w, x \in 1..Len(watchers) :
        /\ TornDownPending(State, w)
        /\ queue = << x, w >>
        /\ watchers[x].active
        /\ ValueOf(State, watchers[w].expr) # watchers[w].value
        /\ LET S1 == runTick(Fresh(State))
           IN  /\ S1.watchers[w].value = watchers[w].value
               /\ Count(S1.events, "get", x) = 1

(***************************************************************************)
(* Nested evaluations.  Lazy watchers of computed properties over data.b,  *)
(* one of which throws when data.b is 1, a lazy watcher whose computation  *)
(* reads the computed property of another, and watchers, of the framework  *)
(* and of the user, whose computation reads a computed property and then   *)
(* data.a.                                                                 *)
(***************************************************************************)
After(l, k) == [op |-> "after", o |-> 1, k |-> k, l |-> l]

NestedTemplates ==
    { Tmpl(Path("b"), NoCb, Lazy),
      Tmpl(Throwing("b"), NoCb, Lazy) }

\* a lazy watcher whose computation reads the computed property of l
NewComputedOver(l) ==
    /\ Len(watchers) < MaxWatchers
    /\ watchers[l].lazy
    /\ watchers[l].expr.op # "computed"
    /\ Commit(Watcher(State, Computed(l), NoCb, Lazy))

\* a watcher whose computation reads the computed property of l, then
\* data.a
NewReader(l, options) ==
    /\ Len(watchers) < MaxWatchers
    /\ watchers[l].lazy
    /\ Commit(Watcher(State, After(l, "a"), NoCb, options))

NextNested ==
    \/ \E k \in {"a", "b"}, v \in Bits : Write(k, v)
    \/ \E t \in NestedTemplates : NewWatcherOnce(t)
    \/ \E l \in 1..Len(watchers) : NewComputedOver(l)
    \/ \E l \in 1..Len(watchers), o \in {Plain, User} : NewReader(l, o)
    \/ Tick

SpecNested == Init /\ [][NextNested]_vars

\* the watchers that get() of watcher w evaluates in state S: w, and the
\* lazy watcher whose computed property it reads, if that one is dirty
RECURSIVE Chain(_, _)
Chain(S, w) ==
    LET e == S.watchers[w].expr
    IN  IF e.op \in {"computed", "after"} /\ S.watchers[e.l].dirty
        THEN {w} \cup Chain(S, e.l) ELSE {w}

\* the watchers whose dependency sets get() of watcher w touches
RECURSIVE Reads(_, _)
Reads(S, w) ==
    LET e == S.watchers[w].expr
    IN  IF e.op \in {"computed", "after"}
        THEN {w} \cup Reads(S, e.l) ELSE {w}

\* the computation of watcher w throws in state S
RECURSIVE Throws(_, _)
Throws(S, w) ==
    LET e == S.watchers[w].expr
    IN  CASE e.op = "throwing" -> ownValue(S, e.o, e.k) = Num(1)
          [] e.op \in {"computed", "after"} ->
                S.watchers[e.l].dirty /\ Throws(S, e.l)
          [] OTHER -> FALSE

\* the fields that the computation of watcher w itself reads in state S
DirectReads(S, w) ==
    LET e == S.watchers[w].expr
    IN  CASE e.op = "path" -> {<<e.o, e.k>>}
          [] e.op = "throwing" ->
                IF Throws(S, w) THEN {<<e.o, e.k>>}
                ELSE {<<e.o, e.k>>, <<e.o, "b">>}
          [] e.op = "computed" -> {}
          [] e.op = "after" -> IF Throws(S, w) THEN {} ELSE {<<e.o, e.k>>}

(***************************************************************************)
(* C29  Whatever is on the stack of targets when get() of a watcher        *)
(* begins, the stack and the target are the same when it ends, whether it  *)
(* returns or throws, and so for the get() of every lazy watcher that it   *)
(* evaluates on the way; each watcher evaluated has recorded the fields    *)
(* that its own computation read, while it was the target, and no others,  *)
(* and a watcher that was below on the stack has recorded nothing.         *)
(***************************************************************************)
StackDiscipline ==
    \A w \in 1..Len(watchers), x \in 0..Len(watchers) :
        LET S0 == IF x = 0 THEN Fresh(State) ELSE pushTarget(Fresh(State), x)
            S1 == get(S0, w)
        IN  /\ targetStack = << >>
            /\ S1.targetStack = S0.targetStack
            /\ Target(S1) = x
            /\ S1.thrown = (Throws(State, w) /\ ~watchers[w].user)
            /\ {S1.events[p].w : p \in 1..Len(S1.events)} = Chain(State, w)
            /\ \A y \in Chain(State, w) :
                  /\ Count(S1.events, "get", y) = 1
                  /\ S1.hist[y].reads = DirectReads(State, y)
                  /\ S1.watchers[y].newDeps = << >>
            /\ \A y \in 1..Len(watchers) :
                  y \notin Reads(State, w) =>
                      /\ S1.watchers[y] = watchers[y]
                      /\ S1.hist[y] = hist[y]
                      /\ \A d \in DOMAIN S1.subs :
                            Occurrences(S1.subs[d], y)
                                = Occurrences(subs[d], y)

\* a user watcher reads a computed property whose dirty lazy watcher reads
\* that of another dirty lazy watcher, whose computation read data.b twice
\* when last evaluated and throws now: three evaluations nest, the error
\* passes through two of them and is caught in the third
StackDisciplineWitness ==
    \E u \in 1..Len(watchers) :
        /\ watchers[u].user
        /\ Cardinality(Chain(State, u)) = 3
        /\ Throws(State, u)
        /\ hist[u].reads = {<<1, "a">>}
        /\ LET S1 == get(pushTarget(Fresh(State), u), u)
           IN  /\ Len(S1.events) = 3
               /\ Len(S1.errors) = 1
               /\ S1.targetStack = << u >>
               /\ S1.hist[u].reads = {}

(***************************************************************************)
(* SpecAccessors: data = { a: { x: 0 }, get b / set b, get x } where b is  *)
(* an accessor with a getter and a setter and x an accessor with a getter  *)
(* only, both defined before observe(data) saw them.  Next to the nested   *)
(* record there are a record { x: 0, a: 0 } that nothing has observed and  *)
(* a non-extensible record.  Fields are written, keys deleted, values      *)
(* observed, and observation is switched off and on.                       *)
(***************************************************************************)
Accessor(v, setter) ==
    [Slot(Undef) EXCEPT !.get = TRUE, !.set = setter, !.back = v]

AccessorHeap ==
    << [Obj("record", <<"a", "b", "x">>, [k \in {"a"} |-> Ref(2)], << >>)
           EXCEPT !.prop["b"] = Accessor(Num(0), TRUE),
                  !.prop["x"] = Accessor(Num(0), FALSE)],
       Obj("record", <<"x">>, [k \in {"x"} |-> Num(0)], << >>),
       Obj("record", <<"x", "a">>, [k \in {"x", "a"} |-> Num(0)], << >>),
       [Obj("record", <<"x">>, [k \in {"x"} |-> Num(0)], << >>)
           EXCEPT !.ext = FALSE] >>

InitAccessors == Start(observe(RawState(AccessorHeap), Ref(1), TRUE))

AccessorTemplates ==
    { Tmpl(Path("a"), NoCb, Sync),
      Tmpl(Nested("x"), NoCb, Sync),
      Tmpl(Path("b"), NoCb, Plain) }

ToggleObserving(value) == Commit(toggleObserving(State, value))

Observe(v) == Commit(observe(State, v, FALSE))

Replacements == {Ref(2), Ref(3), Ref(4)}

NextAccessors ==
    \/ \E v \in Replacements : WriteAt(1, "a", v)
    \/ \E k \in {"b", "x"}, v \in Bits : WriteAt(1, k, v)
    \/ \E o \in {2, 3}, k \in {"x", "a"} : Del(o, k)
    \/ \E value \in BOOLEAN : ToggleObserving(value)
    \/ \E v \in Replacements : Observe(v)
    \/ \E t \in AccessorTemplates : NewWatcherOnce(t)
    \/ Tick

SpecAccessors == InitAccessors /\ [][NextAccessors]_vars

(***************************************************************************)
(* C31  A write that changes the value of a reactive field stores the new  *)
(* value and wraps it, if observe() accepts it, before the field's dep     *)
(* notifies: a synchronous watcher of the field is evaluated again during  *)
(* the notification, reads the new value, and ends subscribed to the dep   *)
(* of the new value's Observer and no longer to that of the old value's.   *)
(***************************************************************************)
\* the dep of the Observer of the container v refers to, 0 if it has none
ObDep(S, v) == IF isObject(v) THEN S.heap[v.v].ob ELSE 0

\* the synchronous watchers subscribed to field k of data
SyncReaders(S, k) ==
    {w \in 1..Len(S.watchers) :
        /\ S.watchers[w].active
        /\ S.watchers[w].sync
        /\ indexOf(S.subs[S.heap[1].prop[k].dep], w) # 0}

SetterStoresBeforeNotify ==
    \A v \in Replacements :
        LET p == heap[1].prop["a"]
            S1 == setProp(Fresh(State), 1, "a", v)
            new == ObDep(S1, v)
            old == ObDep(State, p.val)
        IN  v # p.val =>
              /\ S1.heap[1].prop["a"].val = v
              /\ (shouldObserve /\ Eligible(State, v)) => Wrapped(S1, v.v)
              /\ (ObDep(State, v) = 0 /\ ~(shouldObserve /\ Eligible(State, v)))
                    => new = 0
              /\ S1.heap[1].prop["a"].childOb = (IF new # 0 THEN v.v ELSE 0)
              /\ Cardinality(NotifiesOf(S1.events, p.dep)) = 1
              /\ \A w \in SyncReaders(State, "a") :
                    /\ \E n \in NotifiesOf(S1.events, p.dep) :
                          Where(S1.events, "get", w) # {}
                          /\ \A g \in Where(S1.events, "get", w) : n < g
                    /\ watchers[w].expr = Path("a") => S1.watchers[w].value = v
                    /\ S1.watchers[w].value = ValueOf(S1, watchers[w].expr)
                    /\ <<1, "a">> \in S1.hist[w].reads
                    /\ new # 0 =>
                          /\ new \in S1.watchers[w].depIds
                          /\ Occurrences(S1.subs[new], w) = 1
                    /\ old # 0 =>
                          /\ old \notin S1.watchers[w].depIds
                          /\ Occurrences(S1.subs[old], w) = 0

\* the unobserved record replaces the nested record under a synchronous
\* watcher, and is wrapped by the write
SetterStoresBeforeNotifyWitness ==
    /\ heap[1].prop["a"].val = Ref(2)
    /\ heap[3].ob = 0
    /\ shouldObserve
    /\ SyncReaders(State, "a") # {}
    /\ \E w \in SyncReaders(State, "a") :
          /\ watchers[w].expr = Path("a")
          /\ heap[2].ob \in watchers[w].depIds
          /\ LET S1 == setProp(Fresh(State), 1, "a", Ref(3))
             IN  /\ S1.heap[3].ob # 0
                 /\ S1.heap[3].ob \in S1.watchers[w].depIds
                 /\ heap[2].ob \notin S1.watchers[w].depIds
                 /\ S1.watchers[w].value = Ref(3)

(***************************************************************************)
(* C32  defineReactive keeps the accessor a property had.  A field that    *)
(* had a getter and a setter reads as what the old getter returns, and a   *)
(* write of another value goes through the old setter and then notifies    *)
(* the field's dep once.  A field that had only a getter reads as what     *)
(* the getter returns, and a write to it changes nothing and notifies no   *)
(* dep.                                                                    *)
(***************************************************************************)
\* every notify in a log
Notifies(ev) == {i \in 1..Len(ev) : ev[i].e = "notify"}

AccessorsPreserved ==
    LET b == heap[1].prop["b"]
        x == heap[1].prop["x"]
    IN  /\ b.dep # 0 /\ b.get /\ b.set
        /\ x.dep # 0 /\ x.get /\ ~x.set
        /\ getProp(Fresh(State), 1, "b").ret = b.back
        /\ getProp(Fresh(State), 1, "x").ret = x.back
        /\ \A v \in Bits :
              LET S1 == setProp(Fresh(State), 1, "b", v)
              IN  IF v = b.back
                  THEN S1 = Fresh(State)
                  ELSE /\ S1.heap[1].prop["b"].back = v
                       /\ S1.heap[1].prop["b"].val = b.val
                       /\ getProp(S1, 1, "b").ret = v
                       /\ Notifies(S1.events) = NotifiesOf(S1.events, b.dep)
                       /\ Cardinality(Notifies(S1.events)) = 1
                       /\ \A w \in ReadersOf(State, 1, "b") :
                             Count(S1.events, "update", w) = 1
        /\ \A v \in Bits \cup Replacements :
              setProp(Fresh(State), 1, "x", v) = Fresh(State)

\* the field with getter and setter was written through the setter and is
\* watched, and a write that would change the getter-only field is dropped
AccessorsPreservedWitness ==
    /\ heap[1].prop["b"].back = Num(1)
    /\ heap[1].prop["b"].val = Num(0)
    /\ ReadersOf(State, 1, "b") # {}
    /\ \E w \in ReadersOf(State, 1, "b") : watchers[w].value = Num(1)
    /\ Count(setProp(Fresh(State), 1, "b", Num(0)).events, "notify", 0) = 1
    /\ heap[1].prop["x"].back = Num(0)
    /\ setProp(Fresh(State), 1, "x", Num(1)).heap = heap
    /\ setProp(Fresh(State), 1, "x", Num(1)).events = << >>

(***************************************************************************)
(* C33  del(container, key) on a record that has an Observer and is not    *)
(* root data removes an own key and then calls notify() of the Observer's  *)
(* dep exactly once; when the key is not an own key nothing is removed     *)
(* and no dep notifies; on a record without an Observer the key is         *)
(* removed and no dep notifies.                                            *)
(***************************************************************************)
\* the containers of SpecAccessors that are not root data
Inner == {2, 3, 4}

\* the synchronous watchers subscribed to dep d
SyncSubs(S, d) ==
    {w \in 1..Len(S.watchers) :
        /\ S.watchers[w].active
        /\ S.watchers[w].sync
        /\ indexOf(S.subs[d], w) # 0}

\* S1 is S but for key k of container o, which is gone
Removed(S, S1, o, k) ==
    /\ ~hasOwn(S1, o, k)
    /\ S1.heap[o].keys = remove(S.heap[o].keys, k)
    /\ \A j \in Keys \ {k} : S1.heap[o].prop[j] = S.heap[o].prop[j]
    /\ \A c \in 1..Len(S.heap) : c # o => S1.heap[c] = S.heap[c]

DelNotifiesOnce ==
    \A o \in Inner, k \in Keys :
        LET S1 == del(Fresh(State), Ref(o), Str(k))
            ob == heap[o].ob
        IN  /\ heap[o].vmCount = 0 /\ ~heap[o].isVue
            /\ ~S1.thrown /\ S1.warnings = 0
            /\ IF ~hasOwn(State, o, k)
               THEN S1 = Fresh(State)
               ELSE /\ Removed(State, S1, o, k)
                    /\ IF ob = 0
                       THEN /\ S1.events = << >>
                            /\ S1.watchers = watchers
                            /\ S1.subs = subs
                            /\ S1.queue = queue
                       ELSE /\ Notifies(S1.events) = NotifiesOf(S1.events, ob)
                            /\ Cardinality(Notifies(S1.events)) = 1
                            /\ S1.events[1].e = "notify"
                            /\ \A w \in 1..Len(watchers) :
                                  Count(S1.events, "update", w)
                                      = Occurrences(subs[ob], w)
                            /\ \A w \in SyncSubs(State, ob) :
                                  /\ Count(S1.events, "get", w) = 1
                                  /\ S1.watchers[w].value
                                        = ValueOf(S1, watchers[w].expr)

\* a key of the wrapped nested record that a synchronous watcher reads is
\* deleted: the watcher is run by the one notify and no longer finds the key;
\* a key of a record without an Observer is deleted
DelNotifiesOnceWitness ==
    /\ heap[1].prop["a"].val = Ref(2)
    /\ heap[2].ob # 0
    /\ hasOwn(State, 2, "x")
    /\ ~hasOwn(State, 2, "a")
    /\ \E w \in SyncSubs(State, heap[2].ob) :
          /\ watchers[w].expr = Nested("x")
          /\ watchers[w].value = Num(0)
          /\ LET S1 == del(Fresh(State), Ref(2), Str("x"))
             IN  /\ S1.watchers[w].value = Undef
                 /\ ~hasOwn(S1, 2, "x")
                 /\ Cardinality(NotifiesOf(S1.events, heap[2].ob)) = 1
    /\ del(Fresh(State), Ref(2), Str("a")) = Fresh(State)
    /\ heap[3].ob = 0
    /\ hasOwn(State, 3, "a")
    /\ LET S1 == del(Fresh(State), Ref(3), Str("a"))
       IN  ~hasOwn(S1, 3, "a") /\ S1.events = << >>

(***************************************************************************)
(* C34  While shouldObserve is false, observe() of a container that has    *)
(* no Observer creates no Observer, defines no reactive property and       *)
(* returns nothing, while observe() of a container that has an Observer    *)
(* returns that Observer; after toggleObserving(true), observe() wraps     *)
(* again.                                                                  *)
(***************************************************************************)
ToggleGatesObserve ==
    /\ \A value \in BOOLEAN :
          toggleObserving(State, value) = [State EXCEPT !.shouldObserve = value]
    /\ \A v \in Replacements :
          LET S1 == observe(Fresh(State), v, FALSE)
              S2 == observe(toggleObserving(Fresh(State), TRUE), v, FALSE)
          IN  IF heap[v.v].ob # 0
              THEN /\ S1 = [Fresh(State) EXCEPT !.retOb = v.v]
                   /\ S2.retOb = v.v
                   /\ S2.heap = heap /\ S2.subs = subs
              ELSE /\ ~shouldObserve => S1 = Fresh(State)
                   /\ IF Eligible(State, v)
                      THEN /\ S2.retOb = v.v
                           /\ Wrapped(S2, v.v)
                           /\ S2.heap[v.v].ob = Len(subs) + 1
                           /\ Len(S2.subs)
                                 = Len(subs) + 1 + Len(heap[v.v].keys)
                      ELSE S2 = toggleObserving(Fresh(State), TRUE)

\* observation is off, the nested record has an Observer and the spare
\* record has none
ToggleGatesObserveWitness ==
    /\ ~shouldObserve
    /\ heap[2].ob # 0
    /\ heap[3].ob = 0
    /\ heap[3].keys # << >>
    /\ observe(Fresh(State), Ref(2), FALSE).retOb = 2
    /\ observe(Fresh(State), Ref(3), FALSE) = Fresh(State)
    /\ Wrapped(observe(toggleObserving(Fresh(State), TRUE), Ref(3), FALSE), 3)

(***************************************************************************)
(* C35  Subscription symmetry.  In every state in which no evaluation of   *)
(* an active watcher W is in progress, W is in the subscriber list of a    *)
(* dep D if and only if D is in W's retained set (deps / depIds), W        *)
(* occurs at most once in the list of D, and W's working set (newDeps /    *)
(* newDepIds) is empty.                                                    *)
(***************************************************************************)
\* watcher w is being evaluated: it is on the stack of targets
Evaluating(S, w) == indexOf(S.targetStack, w) # 0

Symmetric(S, w) ==
    /\ \A d \in 1..Len(S.subs) :
          /\ indexOf(S.subs[d], w) # 0 <=> d \in S.watchers[w].depIds
          /\ Occurrences(S.subs[d], w) <= 1
    /\ S.watchers[w].depIds \subseteq 1..Len(S.subs)
    /\ S.watchers[w].depIds
          = {S.watchers[w].deps[i] : i \in 1..Len(S.watchers[w].deps)}
    /\ Len(S.watchers[w].deps) = Cardinality(S.watchers[w].depIds)
    /\ S.watchers[w].newDeps = << >>
    /\ S.watchers[w].newDepIds = {}

SubscriptionSymmetry ==
    \A w \in 1..Len(watchers) :
        (watchers[w].active /\ ~Evaluating(State, w)) => Symmetric(State, w)

\* a watcher whose evaluations subscribed it to both fields was evaluated
\* again, dropped one of them, and is symmetric; a watcher torn down next
\* to it is in no list
SubscriptionSymmetryWitness ==
    \E w, x \in 1..Len(watchers) :
        /\ watchers[w].active
        /\ ~Evaluating(State, w)
        /\ hist[w].ever = {<<1, "a">>, <<1, "b">>}
        /\ hist[w].reads = {<<1, "a">>}
        /\ watchers[w].depIds = {heap[1].prop["a"].dep}
        /\ indexOf(subs[heap[1].prop["a"].dep], w) # 0
        /\ indexOf(subs[heap[1].prop["b"].dep], w) = 0
        /\ ~watchers[x].active
        /\ watchers[x].depIds # {}
        /\ Symmetric(State, w)

(***************************************************************************)
(* C36  The queue of nextTick.  Between operations, whenever callbacks is  *)
(* not empty, pending is true and exactly one flushCallbacks is in the     *)
(* hands of the platform; pending is false only when callbacks is empty    *)
(* or a drain is running; and at no time, between the callbacks of a       *)
(* running drain included, is more than one flushCallbacks handed to the   *)
(* platform and not yet started.                                           *)
(***************************************************************************)
\* the state in which the drain of S has called the first j of its copies
DrainAfter(S, j) ==
    copiesLoop([S EXCEPT !.scheduled = @ - 1, !.pending = FALSE,
                         !.callbacks = << >>],
               SubSeq(S.callbacks, 1, j), 1)

AtMostOneDrain(S) ==
    /\ S.scheduled \in {0, 1}
    /\ S.callbacks # << >> => S.pending /\ S.scheduled = 1

MicrotaskQueueInvariant ==
    /\ AtMostOneDrain(State)
    /\ ~pending => callbacks = << >>
    /\ pending <=> scheduled = 1
    /\ scheduled = 1 =>
          /\ \A j \in 0..Len(callbacks) :
                LET S1 == DrainAfter(State, j)
                IN  /\ AtMostOneDrain(S1)
                    /\ S1.pending <=> S1.scheduled = 1
                    /\ ~S1.thrown
          /\ Settled(State) = [DrainAfter(State, Len(callbacks)) EXCEPT
                                  !.events = Settled(State).events]
          /\ AtMostOneDrain(Settled(State))

\* two callbacks wait for the one drain handed to the platform; the first
\* gives a callback to nextTick while the drain runs, which hands the
\* platform one more drain, and the second is called in that state
MicrotaskQueueWitness ==
    /\ Len(callbacks) >= 2
    /\ pending
    /\ scheduled = 1
    /\ callbacks[1].cb.fn = "user" /\ callbacks[1].cb.again
    /\ DrainAfter(State, 0).callbacks = << >>
    /\ ~DrainAfter(State, 0).pending
    /\ DrainAfter(State, 1).pending
    /\ DrainAfter(State, 1).scheduled = 1
    /\ Len(DrainAfter(State, 1).callbacks) = 1
    /\ Len(DrainAfter(State, 2).invoked) = Len(invoked) + 2

(***************************************************************************)
(* SpecCache: data = { a: { x: 0 }, b: [{ x: 0 }] }, the record in the     *)
(* array being a second one, and a non-extensible record { x: 0 } that is  *)
(* assigned to data.a.  Lazy watchers compute data.a.x (a key that del     *)
(* removes and set adds again) and data.b[0].x; the state is changed by    *)
(* assignment to reactive fields, by set and del, and by the intercepted   *)
(* array methods.                                                          *)
(***************************************************************************)
\* the deps created in SpecCache
MaxCacheDeps == 9

CacheHeap ==
    << Obj("record", <<"a", "b">>,
           [k \in {"a", "b"} |-> IF k = "a" THEN Ref(2) ELSE Ref(3)], << >>),
       Obj("record", <<"x">>, [k \in {"x"} |-> Num(0)], << >>),
       Obj("array", << >>, << >>, << Ref(4) >>),
       Obj("record", <<"x">>, [k \in {"x"} |-> Num(0)], << >>),
       [Obj("record", <<"x">>, [k \in {"x"} |-> Num(0)], << >>)
           EXCEPT !.ext = FALSE] >>

InitCache == Start(observe(RawState(CacheHeap), Ref(1), TRUE))

CacheTemplates ==
    { Tmpl(Nested("x"), NoCb, Lazy),
      Tmpl(Elem("b"), NoCb, Lazy) }

\* set(o, k, v) of a key of a record
SetKey(o, k, v) ==
    /\ Len(subs) < MaxCacheDeps
    /\ Commit(set(State, Ref(o), Str(k), v))

\* the argument lists of the intercepted methods in SpecCache
CacheArgs(method) ==
    CASE method \in {"push", "unshift"} -> {<<Ref(4)>>}
      [] method = "splice" -> {<<Num(0), Num(1)>>}
      [] OTHER -> {<< >>}

\* o[k] = v where k is a reactive property of o
Assign(o, k, v) ==
    /\ hasOwn(State, o, k)
    /\ heap[o].prop[k].dep # 0
    /\ Commit(setProp(State, o, k, v))

NextCache ==
    \/ \E v \in {Ref(2), Ref(5)} : Assign(1, "a", v)
    \/ \E o \in {2, 4}, v \in Bits : Assign(o, "x", v)
    \/ \E o \in {2, 5}, v \in Bits : SetKey(o, "x", v)
    \/ Del(2, "x")
    \/ \E method \in methodsToPatch :
          \E args \in CacheArgs(method) : ArrayCall(3, method, args)
    \/ SetIndex(3, 0, Ref(4))
    \/ \E t \in CacheTemplates : NewWatcherOnce(t)
    \/ \E w \in 1..Len(watchers) : ReadComputed(w)

SpecCache == InitCache /\ [][NextCache]_vars

\* the cache of the lazy watcher w is marked valid
Cached(S, w) ==
    /\ S.watchers[w].lazy
    /\ S.watchers[w].active
    /\ ~S.watchers[w].dirty

LazyCacheStale ==
    \E w \in 1..Len(watchers) :
        /\ Cached(State, w)
        /\ watchers[w].expr = Nested("x")
        /\ heap[1].prop["a"].val = Ref(5)
        /\ watchers[w].value = Num(0)
        /\ heap[5].prop["x"].val = Num(1)

(***************************************************************************)
(* C37, amended  For an active lazy watcher that has been evaluated and    *)
(* whose computation reads only containers that have an Observer, after    *)
(* any sequence of assignments to reactive fields, set, del and            *)
(* intercepted array methods, dirty = false implies that the cached value  *)
(* is what the computation returns on the current state.                   *)
(***************************************************************************)
\* every container the computation e reads in state S has an Observer
Tracked(S, e) ==
    CASE e.op = "nested" ->
            LET a == ownValue(S, e.o, "a")
            IN  S.heap[e.o].ob # 0 /\ (isObject(a) => S.heap[a.v].ob # 0)
      [] e.op = "elem" ->
            LET a == ownValue(S, e.o, e.k)
            IN  /\ S.heap[e.o].ob # 0
                /\ isObject(a) => S.heap[a.v].ob # 0
                /\ (isArray(S, a) /\ S.heap[a.v].elems # << >>
                    /\ isObject(S.heap[a.v].elems[1]))
                      => S.heap[S.heap[a.v].elems[1].v].ob # 0
      [] OTHER -> S.heap[e.o].ob # 0

Made(obj, how) ==
    [obj EXCEPT !.ext = (how = "plain"), !.frozen = (how = "frozen")]

TraverseHeap(r, s, l, hr, hs, hl) ==
    << Obj("record", <<"a", "b">>,
           [k \in {"a", "b"} |-> IF k = "a" THEN Ref(2) ELSE Ref(4)], << >>),
       Made(Obj("record", <<"a">>, [k \in {"a"} |-> r], << >>), hr),
       Made(Obj("record", <<"a">>, [k \in {"a"} |-> s], << >>), hs),
       Made(Obj("array", << >>, << >>, l), hl) >>

InitTraverse ==
    \E r \in {Num(0), Ref(2), Ref(3)},
       s \in {Num(0), Ref(2), Ref(3), Ref(4)},
       l \in {<< >>, <<Ref(3)>>, <<Ref(2)>>, <<Ref(2), Ref(3)>>},
       hr, hs \in {"plain", "sealed", "frozen"},
       hl \in {"plain", "sealed"} :
        Start(observe(RawState(TraverseHeap(r, s, l, hr, hs, hl)),
                      Ref(1), TRUE))

\* traverse(c)
TraverseCall(c) == Commit(traverse(State, Ref(c)))

NextTraverse ==
    \/ \E c \in 1..4 : TraverseCall(c)
    \/ \E k \in {"a", "b"} : NewWatcherOnce(Tmpl(Path(k), NoCb, Deep))

SpecTraverse == InitTraverse /\ [][NextTraverse]_vars

\* the visits of the container with Observer dep d in a log
VisitsOf(ev, d) == {i \in 1..Len(ev) : ev[i].e = "visit" /\ ev[i].d = d}

\* no container with an Observer is visited twice
VisitsOnce(S, ev) ==
    \A d \in 1..Len(S.subs) : Cardinality(VisitsOf(ev, d)) <= 1

(***************************************************************************)
(* C38, as claimed  traverse(val) terminates for every finite value        *)
(* graph, graphs with reference cycles included, visits each container     *)
(* that has an Observer at most once per call, and leaves seenObjects      *)
(* empty when it returns.                                                  *)
(***************************************************************************)
TraverseTerminates ==
    \A c \in 1..Len(heap) :
        LET S1 == traverse(Fresh(State), Ref(c))
        IN  /\ ~S1.thrown
            /\ VisitsOnce(State, S1.events)
            /\ S1.seenObjects = {}

\* container x has no Observer and is not frozen: _traverse reads its
\* children whenever it is called on it
Open(S, x) == S.heap[x].ob = 0 /\ ~S.heap[x].frozen

\* the containers _traverse goes on to from x; with open, only those that
\* _traverse reads every time
Kids(S, x, open) ==
    IF S.heap[x].frozen \/ (open /\ ~Open(S, x)) THEN {}
    ELSE {y \in Children(S, x) : ~open \/ Open(S, y)}

RECURSIVE Grow(_, _, _)
Grow(S, X, open) ==
    LET Y == X \cup UNION {Kids(S, x, open) : x \in X}
    IN  IF Y = X THEN X ELSE Grow(S, Y, open)

\* x lies on a cycle of containers without Observer that are not frozen
OnOpenCycle(S, x) == Open(S, x) /\ x \in Grow(S, Kids(S, x, TRUE), TRUE)

\* traverse(c) comes to a cycle that nothing guards
OpenCycleFrom(S, c) == \E x \in Grow(S, {c}, FALSE) : OnOpenCycle(S, x)

\* What holds instead: traverse returns, having visited each container
\* with an Observer at most once and with seenObjects empty, exactly when
\* it comes to no cycle of containers that have no Observer and are not
\* frozen; on such a cycle it recurses until the call stack is exhausted,
\* and the RangeError leaves seenObjects as it is.
TraverseTerminatesUnlessOpenCycle ==
    \A c \in 1..Len(heap) :
        LET S1 == traverse(Fresh(State), Ref(c))
        IN  /\ VisitsOnce(State, S1.events)
            /\ ~OpenCycleFrom(State, c) =>
                  /\ ~S1.thrown
                  /\ S1.seenObjects = {}
                  /\ S1.heap = heap
            /\ (OpenCycleFrom(State, c) /\ seenObjects = {}) =>
                  /\ S1.thrown
                  /\ S1.seenObjects
                        = {d \in 1..Len(subs) : VisitsOf(S1.events, d) # {}}

\* a record with an Observer lies on a cycle and is visited once; a
\* non-extensible record that refers to itself exhausts the stack
TraverseWitness ==
    /\ heap[2].ob # 0
    /\ heap[2].prop["a"].val = Ref(2)
    /\ ~traverse(Fresh(State), Ref(2)).thrown
    /\ Cardinality(VisitsOf(traverse(Fresh(State), Ref(2)).events,
                            heap[2].ob)) = 1
    /\ Open(State, 3)
    /\ ownValue(State, 3, "a") = Ref(3)
    /\ traverse(Fresh(State), Ref(3)).thrown

====
